---- MODULE Spec2Model ----
(***************************************************************************)
(* A model of the search core of the IRWA product search engine: the       *)
(* TF-IDF index builder (project_progress/part_2/indexing.py), the ranking *)
(* functions (project_progress/part_3/ranking.py), the SearchEngine       *)
(* facade (myapp/search/search_engine.py) and the evaluation metrics       *)
(* (project_progress/part_2/evaluation.py).                                *)
(*                                                                         *)
(* Numbers.  Python floats are modelled in fixed point with four decimal   *)
(* places (Scale): tf and idf are rounded to four decimals by the code     *)
(* itself, and every score is the floor, at four decimals, of the value    *)
(* the formula of the code denotes.  All intermediate products stay below  *)
(* 2^31.  The evaluation metrics are ratios of small counts and are held   *)
(* as exact fractions; the gains of NDCG are held in millionths.           *)
(*                                                                         *)
(* Text.  A text is a sequence of lower-case words (the result of          *)
(* splitting on white space); a term is a word that left the normalizer.   *)
(***************************************************************************)
EXTENDS Integers, Sequences, FiniteSets, TLC

VARIABLES
    documents,      \* the corpus of the process: a sequence of raw documents
    index,          \* term -> list of postings <<pid, positions>>, with key order
    tf,             \* term -> list of normalized term frequencies (x Scale)
    df,             \* term -> number of documents holding the term
    idf,            \* term -> inverse document frequency (x Scale)
    title_index,    \* pid -> title
    word2vec_model, \* the embedding table of the engine, or None
    phase,          \* "new", "built" (tables built by the library), "engine"
    out             \* the last call: its name, its arguments and what it gave

vars == <<documents, index, tf, df, idf, title_index, word2vec_model, phase, out>>

----------------------------------------------------------------------------
(* Bounds of the model *)

MaxDocs == 3          \* documents in a corpus
MaxLen == 2           \* words in a title
MaxQuery == 2         \* words in a query
MaxTopN == 1          \* largest topN asked of SearchEngine.search
MaxStoredDocs == 1    \* documents behind a stored index artifact
MaxRank == 3          \* ids in a ranking or a benchmark handed to a metric
MaxK == 3             \* largest cutoff K handed to a metric
MaxBatch == 2         \* (ranking, benchmark) pairs in a batch
MaxBatchRank == 2     \* ids in a ranking or a benchmark of a batch
MaxWords == 3         \* words in a text handed to a normalizer
MaxChars == 3         \* characters in a string handed to parse_numeric

----------------------------------------------------------------------------
(* Fixed-point arithmetic *)

\* np.round(x, 4): four decimal places
Scale == 10000

RECURSIVE SumSeq(_)
SumSeq(s) == IF s = <<>> THEN 0 ELSE Head(s) + SumSeq(Tail(s))

Range(s) == {s[i] : i \in DOMAIN s}

Max2(a, b) == IF a >= b THEN a ELSE b

Min2(a, b) == IF a <= b THEN a ELSE b

\* m*m*S <= 4*Scale*Scale*f*f, computed in two halves to stay below 2^31
HalfStepLeq(m, f, S) ==
    LET sq == m * m
        hi == sq \div Scale
        lo == sq % Scale
    IN  hi * S + ((lo * S + Scale - 1) \div Scale) <= 4 * Scale * f * f

RECURSIVE RoundSearch(_, _, _, _)
RoundSearch(lo, hi, f, S) ==
    IF lo = hi THEN lo
    ELSE LET mid == (lo + hi + 1) \div 2
         IN  IF HalfStepLeq(2 * mid - 1, f, S)
             THEN RoundSearch(mid, hi, f, S)
             ELSE RoundSearch(lo, mid - 1, f, S)

\* np.round(freq / math.sqrt(S), 4) x Scale, for 1 <= freq*freq <= S: the
\* integer nearest to Scale*freq/sqrt(S)
Round4Ratio(freq, S) == RoundSearch(0, Scale, freq, S)

RECURSIVE SqrtSearch(_, _, _)
SqrtSearch(lo, hi, n) ==
    IF lo = hi THEN lo
    ELSE LET mid == (lo + hi + 1) \div 2
         IN  IF mid * mid <= n
             THEN SqrtSearch(mid, hi, n)
             ELSE SqrtSearch(lo, mid - 1, n)

\* the integer part of math.sqrt(n)
ISqrt(n) == SqrtSearch(0, 46340, n)

\* math.sqrt(Q) * math.sqrt(D) for Q, D > 0: each root is its integer part
\* plus the first Newton correction, which keeps the product exact to a few
\* units in the eighth place
NormProduct(Q, D) ==
    LET sq == ISqrt(Q)
        sd == ISqrt(D)
    IN  sq * sd + (sq * (D - sd * sd)) \div (2 * sd) + (sd * (Q - sq * sq)) \div (2 * sq)

\* floor(Scale * a / b) for 0 <= a, 0 < b <= 2*10^8, by long division
LongDiv(a, b) ==
    LET r0 == a % b
        d1 == (r0 * 10) \div b
        r1 == (r0 * 10) % b
        d2 == (r1 * 10) \div b
        r2 == (r1 * 10) % b
        d3 == (r2 * 10) \div b
        r3 == (r2 * 10) % b
        d4 == (r3 * 10) \div b
    IN  (a \div b) * Scale + d1 * 1000 + d2 * 100 + d3 * 10 + d4

\* a / b on two values held at the same scale; the quotient is held x Scale
FixDiv(a, b) ==
    IF b > 200000000 THEN LongDiv(a \div 10, b \div 10) ELSE LongDiv(a, b)

\* natural logarithms of 1..7, x 10^6
LnMicro == <<0, 693147, 1098612, 1386294, 1609438, 1791759, 1945910>>

\* np.round(np.log(float(n) / d), 4) x Scale, for 1 <= d <= n <= 7
Round4Log(n, d) == (LnMicro[n] - LnMicro[d] + 50) \div 100

----------------------------------------------------------------------------
(* Python values *)

\* an empty dict / defaultdict: the function with the empty domain
EmptyDict == <<>>

\* dict.get(k, default)
DictGet(d, k, default) == IF k \in DOMAIN d THEN d[k] ELSE default

\* d[k].append(v) on a defaultdict(list)
ListAppend(d, k, v) ==
    IF k \in DOMAIN d THEN [d EXCEPT ![k] = Append(@, v)] ELSE d @@ (k :> <<v>>)

\* an insertion-ordered dict whose key order matters: its keys in insertion
\* order and its entries
EmptyIndex == [keys |-> <<>>, at |-> EmptyDict]

\* `t in index`
InIndex(idx, t) == t \in DOMAIN idx.at

\* index[term].append(posting) on a defaultdict(list)
IndexAppend(idx, term, posting) ==
    [keys |-> IF InIndex(idx, term) THEN idx.keys ELSE Append(idx.keys, term),
     at   |-> ListAppend(idx.at, term, posting)]

\* reading d[k] for every k of a set on a defaultdict: a missing key is
\* inserted with the default value
Touch(d, ks, default) ==
    [k \in (DOMAIN d) \cup ks |-> IF k \in DOMAIN d THEN d[k] ELSE default]

RECURSIVE AppendAll(_, _)
AppendAll(s, ks) ==
    IF ks = <<>> THEN s
    ELSE AppendAll(IF Head(ks) \in Range(s) THEN s ELSE Append(s, Head(ks)), Tail(ks))

\* reading index[t] for the terms of a sequence, in that order
TouchIndex(idx, ts) ==
    [keys |-> AppendAll(idx.keys, ts), at |-> Touch(idx.at, Range(ts), <<>>)]

None == [loaded |-> FALSE, vec |-> EmptyDict]

----------------------------------------------------------------------------
(* Text normalization *)

\* stopwords.words("english"), as far as the words of the model go
StopWords == {"the"}

\* PorterStemmer().stem(t), as far as the words of the model go
Stem(t) == IF t = "shirts" THEN "shirt" ELSE t

\* len(t) > 1
LongerThanOne(t) == t \notin {"x"}

MapStem(tokens) == [i \in 1..Len(tokens) |-> Stem(tokens[i])]

process_query(line) ==
    IF line = <<>> THEN <<>>
    ELSE MapStem(SelectSeq(line, LAMBDA t : t \notin StopWords))

_preprocess_text(text) ==
    IF text = <<>> THEN <<>>
    ELSE MapStem(SelectSeq(text, LAMBDA t : t \notin StopWords /\ LongerThanOne(t)))

\* title_processed, joined and normalized once more (the other fields are empty)
_combine_search_text(doc) == _preprocess_text(_preprocess_text(doc.title))

\* ProcessedDocument.from_document(doc) followed by process_fields()
ProcessedDocument(doc) ==
    [pid |-> doc.pid, title |-> doc.title, search_text |-> _combine_search_text(doc)]

ProcessedCorpus(docs) == [i \in 1..Len(docs) |-> ProcessedDocument(docs[i])]

----------------------------------------------------------------------------
(* create_index_tfidf *)

\* the distinct terms of a text in the order of their first occurrence
DistinctTerms(text) ==
    LET idxs == [i \in 1..Len(text) |-> i]
        firsts == SelectSeq(idxs, LAMBDA i : \A j \in 1..(i - 1) : text[j] # text[i])
    IN  [k \in 1..Len(firsts) |-> text[firsts[k]]]

\* the positions counted from one
PositionsFromOne(text, term) ==
    LET idxs == [i \in 1..Len(text) |-> i]
    IN  SelectSeq(idxs, LAMBDA p : text[p] = term)

\* the zero-based positions of a term in a text, as enumerate appends them
PositionsOf(text, term) ==
    LET idxs == [i \in 1..Len(text) |-> i - 1]
    IN  SelectSeq(idxs, LAMBDA p : text[p + 1] = term)

\* current_doc_index: term -> [pid, positions], in first-occurrence order
current_doc_index(doc) ==
    [keys |-> DistinctTerms(doc.search_text),
     at   |-> [t \in Range(doc.search_text) |->
                  <<doc.pid, PositionsOf(doc.search_text, t)>>]]

\* norm * norm: the sum of the squared occurrence counts
NormSquared(cdi) ==
    SumSeq([i \in 1..Len(cdi.keys) |->
               Len(cdi.at[cdi.keys[i]][2]) * Len(cdi.at[cdi.keys[i]][2])])

\* the tf entry put at the head of tf[term] instead of its end
TfPrepend(tfd, term, freq, norm2) ==
    IF term \in DOMAIN tfd
    THEN [tfd EXCEPT ![term] = <<Round4Ratio(freq, norm2)>> \o @]
    ELSE tfd @@ (term :> <<Round4Ratio(freq, norm2)>>)

\* tf[term].append(np.round(freq / norm, 4))
TfAppend(tfd, term, freq, norm2) == ListAppend(tfd, term, Round4Ratio(freq, norm2))

\* a document-frequency update that counts occurrences instead of documents
DfCountOccurrences(dfd, term, freq) ==
    IF term \in DOMAIN dfd THEN [dfd EXCEPT ![term] = @ + freq] ELSE dfd @@ (term :> freq)

\* df[term] += 1 on a defaultdict(int)
DfIncrement(dfd, term, freq) ==
    IF term \in DOMAIN dfd THEN [dfd EXCEPT ![term] = @ + 1] ELSE dfd @@ (term :> 1)

\* the two loops over current_doc_index.items() that follow the norm: they
\* write disjoint tables, so one pass stands for both
RECURSIVE MergeDoc(_, _, _, _)
MergeDoc(st, cdi, norm2, i) ==
    IF i > Len(cdi.keys) THEN st
    ELSE LET term == cdi.keys[i]
             posting == cdi.at[term]
             freq == Len(posting[2])
         IN  MergeDoc([st EXCEPT !.tf = TfAppend(@, term, freq, norm2),
                                 !.df = DfIncrement(@, term, freq),
                                 !.index = IndexAppend(@, term, posting)],
                      cdi, norm2, i + 1)

\* a pass that leaves out, title included, a document without tokens
IndexDocumentSkipEmpty(st, doc) ==
    IF doc.search_text = <<>> THEN st
    ELSE MergeDoc([st EXCEPT !.title_index =
                      [p \in (DOMAIN @) \cup {doc.pid} |->
                          IF p = doc.pid THEN doc.title ELSE @[p]]],
                  current_doc_index(doc), NormSquared(current_doc_index(doc)), 1)

\* one pass of `for doc in documents`
IndexDocument(st, doc) ==
    LET cdi == current_doc_index(doc)
        titled == [st EXCEPT !.title_index =
                      [p \in (DOMAIN @) \cup {doc.pid} |->
                          IF p = doc.pid THEN doc.title ELSE @[p]]]
    IN  MergeDoc(titled, cdi, NormSquared(cdi), 1)

RECURSIVE IndexDocuments(_, _, _)
IndexDocuments(st, docs, i) ==
    IF i > Len(docs) THEN st
    ELSE IndexDocuments(IndexDocument(st, docs[i]), docs, i + 1)

\* for term in df: idf[term] = np.round(np.log(float(num_documents) / df[term]), 4)
\* idf kept only for the terms that some document lacks
ComputeIdfRare(dfd, num_documents) ==
    [term \in {t \in DOMAIN dfd : dfd[t] < num_documents} |->
        Round4Log(num_documents, dfd[term])]

\* idf[term] = np.round(np.log(float(num_documents / df[term])), 4) for term in df
ComputeIdf(dfd, num_documents) ==
    [term \in DOMAIN dfd |-> Round4Log(num_documents, dfd[term])]

create_index_tfidf(docs) ==
    LET st == IndexDocuments([index |-> EmptyIndex, tf |-> EmptyDict, df |-> EmptyDict,
                              title_index |-> EmptyDict], docs, 1)
    IN  [index |-> st.index, tf |-> st.tf, df |-> st.df,
         idf |-> ComputeIdf(st.df, Len(docs)), title_index |-> st.title_index]

----------------------------------------------------------------------------
(* Ranking: the AND candidate set *)

\* the document ids of the postings of a list
PostingDocs(postings) == {postings[i][1] : i \in DOMAIN postings}

\* `if t not in index` with the guard dropped
AbsentNever(idx, t) == FALSE

\* `if t not in index: return []`
Absent(idx, t) == ~InIndex(idx, t)

\* index[t] on a defaultdict(list): the default for a missing key
ReadIndex(idx, t) == IF InIndex(idx, t) THEN idx.at[t] ELSE <<>>

\* candidate_docs joined by union instead of intersection
JoinUnion(candidate, postings) == candidate \cup postings

\* candidate_docs.intersection(postings)
JoinCandidates(candidate, postings) == candidate \cap postings

\* the loop `for t in query_terms` that opens every ranker: whether it
\* returned [] early, whether candidate_docs is still None, the candidates,
\* and the terms t for which index[t] was read
RECURSIVE CandidateLoop(_, _, _, _)
CandidateLoop(query_terms, i, idx, acc) ==
    IF i > Len(query_terms) THEN acc
    ELSE LET t == query_terms[i]
         IN  IF Absent(idx, t) THEN [acc EXCEPT !.early = TRUE]
             ELSE LET postings == PostingDocs(ReadIndex(idx, t))
                  IN  CandidateLoop(query_terms, i + 1, idx,
                          [early |-> FALSE, none |-> FALSE,
                           docs  |-> IF acc.none THEN postings
                                     ELSE JoinCandidates(acc.docs, postings),
                           read  |-> Append(acc.read, t)])

Candidates(query_terms, idx) ==
    CandidateLoop(query_terms, 1, idx,
                  [early |-> FALSE, none |-> TRUE, docs |-> {}, read |-> <<>>])

\* `if not candidate_docs: return []` after the loop
NoCandidates(c) == c.early \/ c.none \/ c.docs = {}

\* iteration over a set of document ids: the order the hash table gives
SetToSeq(S, order) == SelectSeq(order, LAMBDA p : p \in S)

----------------------------------------------------------------------------
(* Sorting *)

\* the place of x in a list sorted by descending score: after its equals
RECURSIVE InsertDesc(_, _)
InsertDesc(sorted, x) ==
    IF sorted = <<>> THEN <<x>>
    ELSE IF Head(sorted)[2] >= x[2]
         THEN <<Head(sorted)>> \o InsertDesc(Tail(sorted), x)
         ELSE <<x>> \o sorted

RECURSIVE SortFrom(_, _, _)
SortFrom(acc, s, i) ==
    IF i > Len(s) THEN acc ELSE SortFrom(InsertDesc(acc, s[i]), s, i + 1)

\* a sort that leaves the list as it was built
SortNot(results) == results

\* results.sort(key=lambda x: x[1], reverse=True): stable, descending score
SortByScoreDesc(results) == SortFrom(<<>>, results, 1)

\* the document ids of a list of (pid, score)
Ids(results) == [i \in 1..Len(results) |-> results[i][1]]

\* a raised exception ("" when the call returned) and the returned list
Returned(results) == [raised |-> "", results |-> results]

Raised(exc) == [raised |-> exc, results |-> <<>>]

----------------------------------------------------------------------------
(* TF-IDF + cosine similarity *)

\* the sum of f[t] over the terms of a set
RECURSIVE SumOver(_, _)
SumOver(f, S) ==
    IF S = {} THEN 0
    ELSE LET t == CHOOSE x \in S : TRUE IN f[t] + SumOver(f, S \ {t})

cosine_similarity(q_vec, d_vec) ==
    LET dot == SumOver([t \in DOMAIN q_vec |-> q_vec[t] * DictGet(d_vec, t, 0)],
                       DOMAIN q_vec)
        norm_q2 == SumOver([t \in DOMAIN q_vec |-> q_vec[t] * q_vec[t]], DOMAIN q_vec)
        norm_d2 == SumOver([t \in DOMAIN d_vec |-> d_vec[t] * d_vec[t]], DOMAIN d_vec)
    IN  IF norm_q2 = 0 \/ norm_d2 = 0 THEN 0 ELSE FixDiv(dot, NormProduct(norm_q2, norm_d2))

\* the position of the first posting of pid in a posting list, 0 for None
RECURSIVE DocIndexFrom(_, _, _)
DocIndexFrom(postings, pid, i) ==
    IF i > Len(postings) THEN 0
    ELSE IF postings[i][1] = pid THEN i ELSE DocIndexFrom(postings, pid, i + 1)

DocIndex(postings, pid) == DocIndexFrom(postings, pid, 1)

\* q_vec = {t: idf.get(t, 0.0) for t in query_terms}
QueryVector(query_terms, idfd) == [t \in Range(query_terms) |-> DictGet(idfd, t, 0)]

\* the terms of the query for which d_vec gets an entry
DocTerms(pid, query_terms, idx) ==
    {t \in Range(query_terms) : InIndex(idx, t) /\ DocIndex(idx.at[t], pid) # 0}

\* d_vec[term] = float(term_tf) * float(term_idf)
DocVector(pid, query_terms, idx, tfd, idfd) ==
    [t \in DocTerms(pid, query_terms, idx) |->
        (tfd[t][DocIndex(idx.at[t], pid)] * DictGet(idfd, t, 0)) \div Scale]

rank_tfidf_cosine(query_terms, idx, tfd, idfd, order) ==
    LET c == Candidates(query_terms, idx)
        q_vec == QueryVector(query_terms, idfd)
        cand == SetToSeq(c.docs, order)
        results == [k \in 1..Len(cand) |->
                      <<cand[k],
                        cosine_similarity(q_vec, DocVector(cand[k], query_terms, idx, tfd, idfd))>>]
    IN  IF NoCandidates(c) THEN Returned(<<>>) ELSE Returned(SortByScoreDesc(results))

\* the keys read by subscript in index and in tf by rank_tfidf_cosine
TfidfReadsIndex(query_terms, idx) == Candidates(query_terms, idx).read

TfidfReadsTf(query_terms, idx) ==
    LET c == Candidates(query_terms, idx)
    IN  IF NoCandidates(c) THEN {}
        ELSE UNION {DocTerms(pid, query_terms, idx) : pid \in c.docs}

----------------------------------------------------------------------------
(* BM25 *)

\* k1 = 1.5 and b = 0.75, held as 2*k1 and 4*b
k1x2 == 3
bx4 == 3

\* positions that are None instead of an array (a damaged index artifact)
NonePositions == <<-1>>

\* len(positions): a TypeError on None
LenRaises(positions) == positions = NonePositions

\* the postings of the index, term by term in key order
RECURSIVE AllPostingsFrom(_, _)
AllPostingsFrom(idx, i) ==
    IF i > Len(idx.keys) THEN <<>>
    ELSE idx.at[idx.keys[i]] \o AllPostingsFrom(idx, i + 1)

AllPostings(idx) == AllPostingsFrom(idx, 1)

\* the postings of one document
PostingsOfDoc(pid, idx) == SelectSeq(AllPostings(idx), LAMBDA p : p[1] = pid)

\* total += len(positions) over every posting of pid
compute_doc_len(pid, idx) ==
    LET mine == PostingsOfDoc(pid, idx)
    IN  [raised |-> IF \E i \in DOMAIN mine : LenRaises(mine[i][2]) THEN "TypeError" ELSE "",
         value  |-> SumSeq([i \in DOMAIN mine |-> Len(mine[i][2])])]

\* the postings that meet `if pid not in seen`: the first posting of each document
FirstSeen(idx) ==
    LET all == AllPostings(idx)
        idxs == [i \in 1..Len(all) |-> i]
        firsts == SelectSeq(idxs, LAMBDA i : \A j \in 1..(i - 1) : all[j][1] # all[i][1])
    IN  [k \in 1..Len(firsts) |-> all[firsts[k]]]

\* sum(lengths) / len(lengths) as the fraction <<sum, count>>; 1.0 without lengths
compute_avg_doc_len(idx) ==
    LET seen == FirstSeen(idx)
    IN  [raised |-> IF \E i \in DOMAIN seen : LenRaises(seen[i][2]) THEN "TypeError" ELSE "",
         sum    |-> IF seen = <<>> THEN 1 ELSE SumSeq([i \in DOMAIN seen |-> Len(seen[i][2])]),
         count  |-> IF seen = <<>> THEN 1 ELSE Len(seen)]

\* freq: the length of the positions of the first posting of pid, 0 without one
Freq(pid, idx, term) ==
    LET i == DocIndex(idx.at[term], pid)
    IN  IF i = 0 THEN 0 ELSE Len(idx.at[term][i][2])

\* the formula with a numerator that leaves freq out
Bm25TermBare(idf_term, freq, dl, avg) ==
    (idf_term * (k1x2 + 2) * 4 * avg.sum)
        \div (8 * freq * avg.sum + k1x2 * ((4 - bx4) * avg.sum + bx4 * dl * avg.count))

\* idf_term * (freq * (k1 + 1)) / (freq + k1 * (1 - b + b * (dl / avg_len)))
Bm25Term(idf_term, freq, dl, avg) ==
    (idf_term * freq * (k1x2 + 2) * 4 * avg.sum)
        \div (8 * freq * avg.sum + k1x2 * ((4 - bx4) * avg.sum + bx4 * dl * avg.count))

\* the terms of the query that reach the BM25 formula for a document
ScoredAt(pid, query_terms, idx) ==
    SelectSeq(query_terms, LAMBDA t : InIndex(idx, t) /\ Freq(pid, idx, t) # 0)

bm25_score(pid, query_terms, idx, idfd, avg) ==
    LET dl == compute_doc_len(pid, idx)
        scored == ScoredAt(pid, query_terms, idx)
    IN  IF dl.raised # "" THEN [raised |-> dl.raised, value |-> 0]
        ELSE IF scored # <<>> /\ avg.sum = 0
             THEN [raised |-> "ZeroDivisionError", value |-> 0]
             ELSE [raised |-> "",
                   value  |-> SumSeq([i \in DOMAIN scored |->
                                 Bm25Term(DictGet(idfd, scored[i], 0),
                                          Freq(pid, idx, scored[i]), dl.value, avg)])]

\* the first exception of a list of outcomes, "" when none raised
RECURSIVE FirstRaised(_)
FirstRaised(outcomes) ==
    IF outcomes = <<>> THEN ""
    ELSE IF Head(outcomes).raised # "" THEN Head(outcomes).raised
         ELSE FirstRaised(Tail(outcomes))

rank_bm25(query_terms, idx, idfd, order) ==
    LET c == Candidates(query_terms, idx)
        avg == compute_avg_doc_len(idx)
        cand == SetToSeq(c.docs, order)
        scores == [k \in 1..Len(cand) |-> bm25_score(cand[k], query_terms, idx, idfd, avg)]
        results == [k \in 1..Len(cand) |-> <<cand[k], scores[k].value>>]
    IN  IF NoCandidates(c) THEN Returned(<<>>)
        ELSE IF avg.raised # "" THEN Raised(avg.raised)
        ELSE IF FirstRaised(scores) # "" THEN Raised(FirstRaised(scores))
        ELSE Returned(SortByScoreDesc(results))

----------------------------------------------------------------------------
(* The custom ranker of part 3: text cosine and numeric cosine, half each *)

\* x ** 2 + y ** 2, held x 10^6
Norm2D(x, y) == (x * x + y * y) * 1000000

cosine_numeric(query_score, query_price, doc_score, doc_price) ==
    LET dot == query_score * doc_score + query_price * doc_price
        norm_q2 == Norm2D(query_score, query_price)
        norm_d2 == Norm2D(doc_score, doc_price)
    IN  IF norm_q2 = 0 \/ norm_d2 = 0 THEN 0
        ELSE FixDiv(dot * 1000000, NormProduct(norm_q2, norm_d2))

\* an optional number of a document: None, or a number
NoValue == [kind |-> "none", value |-> 0]

Num(n) == [kind |-> "num", value |-> n]

\* `value or 0.0`: None counts as 0
OrZero(v) == IF v.kind = "num" THEN v.value ELSE 0

rank_custom_cosine(query_terms, idx, tfd, idfd, corpus, query_score, query_price, order) ==
    LET c == Candidates(query_terms, idx)
        q_vec == QueryVector(query_terms, idfd)
        cand == SetToSeq(c.docs, order)
        text_cos(pid) == cosine_similarity(q_vec, DocVector(pid, query_terms, idx, tfd, idfd))
        numeric_cos(pid) == cosine_numeric(query_score, query_price,
                                           OrZero(corpus[pid].average_rating),
                                           OrZero(corpus[pid].selling_price))
        results == [k \in 1..Len(cand) |->
                      <<cand[k], (text_cos(cand[k]) + numeric_cos(cand[k])) \div 2>>]
    IN  IF NoCandidates(c) THEN Returned(<<>>) ELSE Returned(SortByScoreDesc(results))

----------------------------------------------------------------------------
(* search_tfidf and rank_documents of part 2 *)

\* the document ids of the model, in the order of their strings
PidNames == <<"D1", "D2", "D3", "D4">>

PidRank(pid) == CHOOSE i \in DOMAIN PidNames : PidNames[i] = pid

\* collections.Counter(terms)[term]
CountOf(terms, term) == Len(SelectSeq(terms, LAMBDA t : t = term))

\* la.norm(list(query_terms_count.values())), squared
QueryNormSquared(terms) ==
    SumOver([t \in Range(terms) |-> CountOf(terms, t) * CountOf(terms, t)], Range(terms))

\* query_vector[termIndex] = (query_terms_count[term] / query_norm) * idf[term],
\* 0 where the term is not in the index
QueryWeights(terms, idx, idfd) ==
    [i \in 1..Len(terms) |->
        IF InIndex(idx, terms[i])
        THEN (Round4Ratio(CountOf(terms, terms[i]), QueryNormSquared(terms))
                 * idfd[terms[i]]) \div Scale
        ELSE 0]

\* doc_vectors[doc][termIndex] = tf[term][doc_index] * idf[term] for the
\* posting of doc in index[term] (a document has one posting per term at
\* most); 0 where doc has none
DocWeights(doc, terms, idx, idfd, tfd) ==
    [i \in 1..Len(terms) |->
        IF InIndex(idx, terms[i]) /\ DocIndex(idx.at[terms[i]], doc) # 0
        THEN (tfd[terms[i]][DocIndex(idx.at[terms[i]], doc)] * idfd[terms[i]]) \div Scale
        ELSE 0]

\* np.dot(curDocVec, query_vector)
Dot(u, v) == SumSeq([i \in 1..Len(u) |-> u[i] * v[i]]) \div Scale

\* the keys of doc_vectors without the test `if doc in docs`
VectorDocsOfAnyTerm(terms, docs, idx) ==
    UNION {IF InIndex(idx, terms[i]) THEN PostingDocs(idx.at[terms[i]]) ELSE {}
            : i \in 1..Len(terms)}

\* the keys of doc_vectors: the documents of docs that have a posting for a
\* term of the query
VectorDocs(terms, docs, idx) ==
    {d \in docs : \E i \in 1..Len(terms) :
        InIndex(idx, terms[i]) /\ d \in PostingDocs(idx.at[terms[i]])}

\* the place of [score, doc] in a list sorted by doc_scores.sort(reverse=True):
\* descending score, then descending document id
RECURSIVE InsertPairDesc(_, _)
InsertPairDesc(sorted, x) ==
    IF sorted = <<>> THEN <<x>>
    ELSE IF Head(sorted)[1] > x[1]
            \/ (Head(sorted)[1] = x[1] /\ PidRank(Head(sorted)[2]) > PidRank(x[2]))
         THEN <<Head(sorted)>> \o InsertPairDesc(Tail(sorted), x)
         ELSE <<x>> \o sorted

RECURSIVE SortPairsOf(_, _)
SortPairsOf(scores, S) ==
    IF S = {} THEN <<>>
    ELSE LET d == CHOOSE x \in S : TRUE
         IN  InsertPairDesc(SortPairsOf(scores, S \ {d}), <<scores[d], d>>)

\* the [score, doc] pairs of rank_documents after the sort
RankedPairs(terms, docs, idx, idfd, tfd) ==
    LET query_vector == QueryWeights(terms, idx, idfd)
        keys == VectorDocs(terms, docs, idx)
        scores == [d \in keys |-> Dot(DocWeights(d, terms, idx, idfd, tfd), query_vector)]
    IN  SortPairsOf(scores, keys)

rank_documents(terms, docs, idx, idfd, tfd) ==
    LET doc_scores == RankedPairs(terms, docs, idx, idfd, tfd)
    IN  [i \in 1..Len(doc_scores) |-> doc_scores[i][2]]

\* the first document set taken for the intersection of all
IntersectFirst(doc_sets) == Head(doc_sets)

\* set.intersection(*doc_sets)
RECURSIVE IntersectAll(_)
IntersectAll(doc_sets) ==
    IF Len(doc_sets) = 1 THEN Head(doc_sets)
    ELSE Head(doc_sets) \cap IntersectAll(Tail(doc_sets))

\* the docs handed to rank_documents by search_tfidf
SearchTfidfDocs(query_terms, idx) ==
    IntersectAll([i \in 1..Len(query_terms) |-> PostingDocs(idx.at[query_terms[i]])])

search_tfidf(query, idx, tfd, idfd) ==
    LET query_terms == process_query(query)
    IN  IF query_terms = <<>> THEN <<>>
        ELSE IF \E i \in 1..Len(query_terms) : ~InIndex(idx, query_terms[i]) THEN <<>>
        ELSE rank_documents(query_terms, SearchTfidfDocs(query_terms, idx), idx, idfd, tfd)

----------------------------------------------------------------------------
(* Word embeddings *)

\* the embedding table of the model: two word vectors of two components
W2V == [loaded |-> TRUE, vec |-> ("red" :> <<1, 0>>) @@ ("cotton" :> <<1, 1>>)]

\* text_vector: the mean of the vectors of the words in the vocabulary, held
\* x Scale; None without such a word
text_vector(text, model) ==
    LET words == SelectSeq(text, LAMBDA w : w \in DOMAIN model.vec)
        n == Len(words)
    IN  IF n = 0 THEN [none |-> TRUE, vec |-> <<0, 0>>]
        ELSE [none |-> FALSE,
              vec  |-> [k \in 1..2 |->
                          (SumSeq([i \in 1..n |-> model.vec[words[i]][k]]) * Scale) \div n]]

cosine_similarity_vec(q_vec, d_vec) ==
    IF q_vec.none \/ d_vec.none THEN 0
    ELSE LET dot == q_vec.vec[1] * d_vec.vec[1] + q_vec.vec[2] * d_vec.vec[2]
             norm_q2 == q_vec.vec[1] * q_vec.vec[1] + q_vec.vec[2] * q_vec.vec[2]
             norm_d2 == d_vec.vec[1] * d_vec.vec[1] + d_vec.vec[2] * d_vec.vec[2]
         IN  IF norm_q2 = 0 \/ norm_d2 = 0 THEN 0
             ELSE FixDiv(dot, NormProduct(norm_q2, norm_d2))

\* doc_vectors[pid] = text_vector(title + description, model), in corpus order
DocVectors(docs, model) ==
    [i \in 1..Len(docs) |-> <<docs[i].pid, text_vector(docs[i].title, model)>>]

\* scores[:20]
TopScores == 20

Prefix(s, n) ==
    IF n >= 0 THEN SubSeq(s, 1, Min2(n, Len(s))) ELSE SubSeq(s, 1, Max2(Len(s) + n, 0))

rank_word2vec_cos(text, doc_vectors, model) ==
    LET q_vec == text_vector(text, model)
        scores == [i \in 1..Len(doc_vectors) |->
                     <<doc_vectors[i][1], cosine_similarity_vec(q_vec, doc_vectors[i][2])>>]
    IN  Prefix(SortByScoreDesc(scores), TopScores)

----------------------------------------------------------------------------
(* SearchEngine *)

\* the method selectors a caller sends; "embedding" is not one the code knows
Methods == {"tfidf", "bm25", "word2vec", "custom", "embedding"}

\* a rating that float() rejects with ValueError
NotANumber == [kind |-> "text", value |-> 0]

\* the boost without the division of the rating by ten
BoostedByRating(score, rating) ==
    IF rating.kind = "num" /\ rating.value # 0
    THEN score * (1 + rating.value)
    ELSE score

\* new_score = score * (1 + rating / 10.0) for a truthy rating that float()
\* accepts; the score as it is otherwise
Boosted(score, rating) ==
    IF rating.kind = "num" /\ rating.value # 0
    THEN (score * (10 + rating.value)) \div 10
    ELSE score

\* the loop `for pid, score in base_results` of the custom branch
BoostAll(base_results, corpus) ==
    [i \in 1..Len(base_results) |->
        <<base_results[i][1],
          Boosted(base_results[i][2], corpus[base_results[i][1]].average_rating)>>]

\* except TypeError
Caught(exc) == exc = "TypeError"

\* the bm25 branch: rank_bm25 under try, rank_tfidf_cosine in the handler
Bm25Branch(query_terms, idx, tfd, idfd, order) ==
    LET r == rank_bm25(query_terms, idx, idfd, order)
    IN  IF Caught(r.raised) THEN rank_tfidf_cosine(query_terms, idx, tfd, idfd, order)
        ELSE r

\* the word2vec branch that ranks with the embeddings whether or not they loaded
Word2vecAlways(query_terms, model, idx, tfd, idfd, order) == Raised("AttributeError")

\* the word2vec branch.  With a model it calls
\* rank_word2vec_cos(query_terms, self.word2vec_model, corpus): the list
\* query_terms lands in the parameter `text`, and text.lower() raises
\* AttributeError on a list.
Word2vecBranch(query_terms, model, idx, tfd, idfd, order) ==
    IF model.loaded THEN Raised("AttributeError")
    ELSE rank_tfidf_cosine(query_terms, idx, tfd, idfd, order)

\* the custom branch: the TF-IDF results boosted by rating and sorted again
CustomBranch(query_terms, corpus, idx, tfd, idfd, order) ==
    LET base_results == rank_tfidf_cosine(query_terms, idx, tfd, idfd, order).results
    IN  Returned(SortByScoreDesc(BoostAll(base_results, corpus)))

\* `results` before `results[:topN]`
SearchResults(query_terms, corpus, method, model, idx, tfd, idfd, order) ==
    CASE method = "tfidf"    -> rank_tfidf_cosine(query_terms, idx, tfd, idfd, order)
      [] method = "bm25"     -> Bm25Branch(query_terms, idx, tfd, idfd, order)
      [] method = "word2vec" -> Word2vecBranch(query_terms, model, idx, tfd, idfd, order)
      [] method = "custom"   -> CustomBranch(query_terms, corpus, idx, tfd, idfd, order)
      [] OTHER               -> rank_tfidf_cosine(query_terms, idx, tfd, idfd, order)

\* results[:topN]
TakeTop(results, topN) == Prefix(results, topN)

\* pids: the ids of results[:topN]; nothing is returned when a ranker raised
SearchPids(r, topN) == IF r.raised = "" THEN Ids(TakeTop(r.results, topN)) ELSE <<>>

\* damage done to the positions of a stored index artifact
Damage(kind, idx) ==
    [idx EXCEPT !.at =
        [t \in DOMAIN idx.at |->
            [i \in 1..Len(idx.at[t]) |->
                <<idx.at[t][i][1],
                  CASE kind = "none" -> NonePositions
                    [] kind = "empty" /\ t = idx.keys[1] -> <<>>
                    [] OTHER -> idx.at[t][i][2]>>]]]

----------------------------------------------------------------------------
(* Evaluation metrics (project_progress/part_2/evaluation.py).  A float is  *)
(* held as the exact fraction it approximates, in lowest terms with a       *)
(* positive denominator.                                                    *)

Abs(x) == IF x < 0 THEN -x ELSE x

RECURSIVE GCD(_, _)
GCD(a, b) == IF b = 0 THEN a ELSE GCD(b, a % b)

\* n / d for d # 0
Frac(n, d) ==
    LET g == GCD(Abs(n), Abs(d))
        sign == IF d < 0 THEN -1 ELSE 1
    IN  [num |-> (sign * n) \div g, den |-> (sign * d) \div g]

\* 0.0
Zero == [num |-> 0, den |-> 1]

FracAdd(x, y) == Frac(x.num * y.den + y.num * x.den, x.den * y.den)

FracMul(x, y) == Frac(x.num * y.num, x.den * y.den)

\* x / y for y # 0
FracDiv(x, y) == Frac(x.num * y.den, x.den * y.num)

\* what a metric gave: the exception it raised ("" when it returned) and its value
Value(v) == [raised |-> "", value |-> v]

DivisionByZero == [raised |-> "ZeroDivisionError", value |-> Zero]

\* the loop `for doc in list: if doc in within: relevant_docs_retrieved += 1`
RECURSIVE CountRelevant(_, _)
CountRelevant(list, within) ==
    IF list = <<>> THEN 0
    ELSE (IF Head(list) \in Range(within) THEN 1 ELSE 0) + CountRelevant(Tail(list), within)

\* precision with the step `K = len(docs)` left out
precision_without_clip(docs, benchmark, K) ==
    IF K = 0 \/ Len(docs) = 0 THEN Value(Zero)
    ELSE Value(Frac(CountRelevant(Prefix(docs, K), benchmark), K))

compute_precision_at_K(docs, benchmark, K) ==
    IF K = 0 \/ Len(docs) = 0 THEN Value(Zero)
    ELSE LET k == IF K > Len(docs) THEN Len(docs) ELSE K
         IN  Value(Frac(CountRelevant(Prefix(docs, k), benchmark), k))

\* recall that cuts the ranking, not the benchmark, at K
recall_of_cut_ranking(docs, benchmark, K) ==
    IF K = 0 \/ Len(benchmark) = 0 THEN Value(Zero)
    ELSE Value(Frac(CountRelevant(benchmark, Prefix(docs, K)), Len(benchmark)))

compute_recall_at_K(docs, benchmark, K) ==
    IF K = 0 \/ Len(benchmark) = 0 THEN Value(Zero)
    ELSE LET k == IF K > Len(benchmark) THEN Len(benchmark) ELSE K
         IN  Value(Frac(CountRelevant(Prefix(benchmark, k), docs), k))

\* the precision at a hit counted without the hit itself
PrecisionBeforeHit(true_positives_seen, rank) == Frac(true_positives_seen - 1, rank)

\* precision = true_positives_seen / index
PrecisionAtHit(true_positives_seen, rank) == Frac(true_positives_seen, rank)

\* the loop `for doc in docs[:K]`: true_positives_seen, index, average_precision
RECURSIVE AveragePrecisionLoop(_, _, _)
AveragePrecisionLoop(top, benchmark, st) ==
    IF top = <<>> THEN st
    ELSE LET rank == st.index + 1
             hit == Head(top) \in Range(benchmark)
             seen == IF hit THEN st.true_positives_seen + 1 ELSE st.true_positives_seen
         IN  AveragePrecisionLoop(Tail(top), benchmark,
                 [true_positives_seen |-> seen,
                  index |-> rank,
                  average_precision |->
                      IF hit THEN FracAdd(st.average_precision, PrecisionAtHit(seen, rank))
                      ELSE st.average_precision])

\* the accumulated precision divided by the ranks walked
AverageOverRanks(st) ==
    IF st.true_positives_seen = 0 THEN Value(Zero)
    ELSE Value(FracDiv(st.average_precision, Frac(st.index, 1)))

\* return average_precision / true_positives_seen, 0.0 without a hit
AverageOverHits(st) ==
    IF st.true_positives_seen = 0 THEN Value(Zero)
    ELSE Value(FracDiv(st.average_precision, Frac(st.true_positives_seen, 1)))

compute_average_precision_at_K(docs, benchmark, K) ==
    AverageOverHits(AveragePrecisionLoop(Prefix(docs, K), benchmark,
        [true_positives_seen |-> 0, index |-> 0, average_precision |-> Zero]))

\* the arithmetic mean of recall and precision
ArithmeticMean(recall, precision) == Value(FracDiv(FracAdd(recall, precision), Frac(2, 1)))

\* 2 * recall * precision / (recall + precision), 0.0 when both are 0
HarmonicMean(recall, precision) ==
    IF recall.num = 0 /\ precision.num = 0 THEN Value(Zero)
    ELSE IF FracAdd(recall, precision).num = 0 THEN DivisionByZero
    ELSE Value(FracDiv(FracMul(Frac(2, 1), FracMul(recall, precision)),
                       FracAdd(recall, precision)))

compute_F1_score_at_K(docs, benchmark, K) ==
    HarmonicMean(compute_recall_at_K(docs, benchmark, K).value,
                 compute_precision_at_K(docs, benchmark, K).value)

\* a cutoff of one whatever the ranking
CutoffOne(ranking) == 1

\* the cutoff compute_mean_average_precision hands over: len(ranking)
CutoffOfRanking(ranking) == Len(ranking)

\* the pairs of zip(rankings, benchmarks)
Zip(rankings, benchmarks) ==
    [i \in 1..Min2(Len(rankings), Len(benchmarks)) |-> <<rankings[i], benchmarks[i]>>]

RECURSIVE FracSumSeq(_)
FracSumSeq(s) == IF s = <<>> THEN Zero ELSE FracAdd(Head(s), FracSumSeq(Tail(s)))

compute_mean_average_precision(rankings, benchmarks) ==
    LET pairs == Zip(rankings, benchmarks)
        total == FracSumSeq([i \in 1..Len(pairs) |->
                    compute_average_precision_at_K(pairs[i][1], pairs[i][2],
                                                   CutoffOfRanking(pairs[i][1])).value])
    IN  IF Len(rankings) = 0 THEN DivisionByZero
        ELSE Value(FracDiv(total, Frac(Len(rankings), 1)))

\* the 1-based rank of the first document of the ranking that is in rel, 0 without one
RECURSIVE FirstHitFrom(_, _, _)
FirstHitFrom(ranking, rel, idx) ==
    IF idx > Len(ranking) THEN 0
    ELSE IF ranking[idx] \in Range(rel) THEN idx
    ELSE FirstHitFrom(ranking, rel, idx + 1)

\* the reciprocal of the rank that follows
ReciprocalOfNextRank(idx) == Frac(1, idx + 1)

\* 1 / idx
ReciprocalRank(idx) == Frac(1, idx)

compute_mean_reciprocal_rank(rankings, benchmarks) ==
    LET pairs == Zip(rankings, benchmarks)
        first(i) == FirstHitFrom(pairs[i][1], pairs[i][2], 1)
        total == FracSumSeq([i \in 1..Len(pairs) |->
                    IF first(i) = 0 THEN Zero ELSE ReciprocalRank(first(i))])
    IN  IF Len(rankings) = 0 THEN DivisionByZero
        ELSE Value(FracDiv(total, Frac(Len(rankings), 1)))

\* 1 / math.log2(i + 1) for i = 1..5, x 10^6
InvLog2Micro == <<1000000, 630930, 500000, 430677, 386853>>

\* dcg: the sum of 1 / math.log2(i + 1) over the ranks i of the documents in benchmark
DiscountedGain(docs, benchmark) ==
    SumSeq([i \in 1..Len(docs) |->
               IF docs[i] \in Range(benchmark) THEN InvLog2Micro[i] ELSE 0])

\* idcg: the same sum over the ranks 1..len(benchmark)
IdealGain(benchmark) == SumSeq([i \in 1..Len(benchmark) |-> InvLog2Micro[i]])

compute_normalized_discounted_cumulative_gain(docs, benchmark) ==
    IF IdealGain(benchmark) > 0
    THEN Value(Frac(DiscountedGain(docs, benchmark), IdealGain(benchmark)))
    ELSE Value(Zero)

----------------------------------------------------------------------------
(* parse_numeric (project_progress/part_1/data_exploration.py).  A string   *)
(* is a sequence of characters.                                             *)

\* \d, as far as the characters of the model go
IsDigit(c) == c \in {"1", "5"}

DigitOf(c) == IF c = "1" THEN 1 ELSE 5

\* the string as it is: nothing stripped
StripNothing(s) == s

\* re.sub(r"[^\d\.]", "", s)
Strip(s) == SelectSeq(s, LAMBDA c : IsDigit(c) \/ c = ".")

\* the number a string of digits denotes
RECURSIVE NumberOf(_)
NumberOf(digits) ==
    IF digits = <<>> THEN 0
    ELSE NumberOf(SubSeq(digits, 1, Len(digits) - 1)) * 10 + DigitOf(digits[Len(digits)])

RECURSIVE Pow10(_)
Pow10(n) == IF n = 0 THEN 1 ELSE 10 * Pow10(n - 1)

\* float(s): ValueError unless s is digits around one dot at most, with a
\* digit at least
FloatOf(s) ==
    LET digits == SelectSeq(s, IsDigit)
        dots == SelectSeq(s, LAMBDA c : c = ".")
        dot == IF dots = <<>> THEN Len(s) ELSE CHOOSE i \in 1..Len(s) : s[i] = "."
    IN  IF Len(digits) + Len(dots) # Len(s) \/ Len(dots) > 1 \/ digits = <<>>
        THEN [raised |-> "ValueError", value |-> Zero]
        ELSE [raised |-> "", value |-> Frac(NumberOf(digits), Pow10(Len(s) - dot))]

\* a value handed to parse_numeric: None, NaN, a number or a string
NaN == [kind |-> "nan", value |-> 0]

Str(chars) == [kind |-> "str", value |-> chars]

\* the float parse_numeric returns, and None in its place
Parsed(v) == [kind |-> "num", value |-> v]

NotParsed == [kind |-> "none", value |-> Zero]

parse_numeric(value) ==
    IF value.kind \in {"none", "nan"} THEN [raised |-> "", result |-> NotParsed]
    ELSE IF value.kind = "num" THEN [raised |-> "", result |-> Parsed(Frac(value.value, 1))]
    ELSE LET s == Strip(value.value)
             f == FloatOf(s)
         IN  IF s = <<>> THEN [raised |-> "", result |-> NotParsed]
             ELSE IF f.raised = "ValueError" THEN [raised |-> "", result |-> NotParsed]
             ELSE [raised |-> "", result |-> Parsed(f.value)]

----------------------------------------------------------------------------
(* The inputs of the model *)

\* the sequences over S of length n at most
SeqsUpTo(S, n) == UNION {[1..k -> S] : k \in 0..n}

\* the words of titles: each leaves the normalizer as it entered
TitleWords == {"red", "cotton"}

\* the words of queries
QueryWords == {"red", "cotton", "the"}

Titles == SeqsUpTo(TitleWords, MaxLen)

\* the corpora of max documents at most: D1..Dn, each with one of the titles
CorporaUpTo(max, titles) ==
    UNION {{[i \in 1..n |-> [pid |-> PidNames[i], title |-> ts[i]]] : ts \in [1..n -> titles]}
           : n \in 0..max}

\* the corpus of the scenario: three titles
ScenarioCorpus ==
    <<[pid |-> "D1", title |-> <<"red", "cotton", "shirt">>],
      [pid |-> "D2", title |-> <<"blue", "cotton", "shirt">>],
      [pid |-> "D3", title |-> <<"red", "silk", "dress">>]>>

Queries == SeqsUpTo(QueryWords, MaxQuery)

TermLists == SeqsUpTo(TitleWords, MaxQuery)

TopNs == (-1)..MaxTopN

Pids(docs) == {docs[i].pid : i \in 1..Len(docs)}

\* the orders in which a set of the document ids can be iterated
Orders(docs) ==
    {o \in [1..Len(docs) -> Pids(docs)] : \A i, j \in 1..Len(docs) : i # j => o[i] # o[j]}

\* the rating and the price a document of the corpus carries
Attributes == {[average_rating |-> NoValue, selling_price |-> NoValue],
               [average_rating |-> Num(5), selling_price |-> Num(3)]}

\* the mapping pid -> Document handed to the rankers that read ratings
CorpusArgs(docs) == [Pids(docs) -> Attributes]

PlainCorpus(docs) == [p \in Pids(docs) |-> [average_rating |-> NoValue, selling_price |-> NoValue]]

\* the words of the texts handed to the normalizers: a plain word, a plural,
\* a stop word and a word of one character
TextWords == {"red", "shirts", "the", "x"}

\* the document ids of the rankings and benchmarks handed to the metrics
EvalIds == {"D1", "D2", "D3"}

\* a ranking or a benchmark: a list of ids, repeats allowed
IdLists == SeqsUpTo(EvalIds, MaxRank)

\* the cutoffs
Cutoffs == (-1)..MaxK

\* the ranking and the benchmark of the evaluation scenario
ScenarioRanking == <<"D3", "D1", "D2">>
ScenarioBenchmark == <<"D1", "D2", "D3">>

\* the (ranking, benchmark) pairs of a batch
BatchLists == SeqsUpTo({"D1", "D2"}, MaxBatchRank) \cup {ScenarioRanking, ScenarioBenchmark}

BatchPairs == BatchLists \X BatchLists

----------------------------------------------------------------------------
(* The state machine *)

NoCall == [op |-> "none"]

\* a process that holds a corpus and has built nothing yet
Start(corpora) ==
    /\ documents \in corpora
    /\ index = EmptyIndex
    /\ tf = EmptyDict
    /\ df = EmptyDict
    /\ idf = EmptyDict
    /\ title_index = EmptyDict
    /\ word2vec_model = None
    /\ phase = "new"
    /\ out = NoCall

\* any corpus of MaxDocs documents at most
Init == Start(CorporaUpTo(MaxDocs, Titles))

\* the documents a stored index artifact was built from
InitStored == Start(CorporaUpTo(MaxStoredDocs, Titles))

\* the corpus a search engine is constructed on: titles that repeat one word
InitEngine == Start(CorporaUpTo(MaxDocs, SeqsUpTo({"red"}, MaxLen)))

InitScenario == Start({ScenarioCorpus})

\* index, tf, df, idf, title_index = create_index_tfidf(processed_corpus)
CreateIndexTfidf ==
    /\ phase = "new"
    /\ out = NoCall
    /\ LET r == create_index_tfidf(ProcessedCorpus(documents))
       IN  /\ index' = r.index
           /\ tf' = r.tf
           /\ df' = r.df
           /\ idf' = r.idf
           /\ title_index' = r.title_index
           /\ out' = [op |-> "create_index_tfidf", ret |-> r]
    /\ phase' = "built"
    /\ UNCHANGED <<documents, word2vec_model>>

\* SearchEngine(corpus): the tables built from the corpus; then the embedding
\* table, None when it cannot be loaded
SearchEngineFromCorpus ==
    /\ phase = "new"
    /\ out = NoCall
    /\ \E model \in {None, W2V} :
          LET r == create_index_tfidf(ProcessedCorpus(documents))
          IN  /\ index' = r.index
              /\ tf' = r.tf
              /\ idf' = r.idf
              /\ title_index' = r.title_index
              /\ word2vec_model' = model
              /\ out' = [op |-> "SearchEngine", how |-> "corpus"]
    /\ phase' = "engine"
    /\ UNCHANGED <<documents, df>>

\* SearchEngine(): the tables loaded from the stored artifact (as
\* create_index_tfidf left them, or damaged), or empty when load_index fails;
\* then the embedding table, None when it cannot be loaded
SearchEngineFromIndex ==
    /\ phase = "new"
    /\ out = NoCall
    /\ \E how \in {"intact", "none", "empty", "failed"}, model \in {None, W2V} :
          LET r == create_index_tfidf(ProcessedCorpus(documents))
          IN  /\ index' = IF how = "failed" THEN EmptyIndex ELSE Damage(how, r.index)
              /\ tf' = IF how = "failed" THEN EmptyDict ELSE r.tf
              /\ idf' = IF how = "failed" THEN EmptyDict ELSE r.idf
              /\ title_index' = IF how = "failed" THEN EmptyDict ELSE r.title_index
              /\ word2vec_model' = model
              /\ out' = [op |-> "SearchEngine", how |-> how]
    /\ phase' = "engine"
    /\ UNCHANGED <<documents, df>>

\* rank_tfidf_cosine(query_terms, index, tf, idf)
RankTfidfCosine ==
    /\ phase = "built"
    /\ out = NoCall
    /\ \E query_terms \in TermLists, order \in Orders(documents) :
          LET r == rank_tfidf_cosine(query_terms, index, tf, idf, order)
          IN  /\ out' = [op |-> "rank_tfidf_cosine", query_terms |-> query_terms,
                         raised |-> r.raised, results |-> r.results]
              /\ index' = TouchIndex(index, TfidfReadsIndex(query_terms, index))
              /\ tf' = Touch(tf, TfidfReadsTf(query_terms, index), <<>>)
    /\ UNCHANGED <<documents, df, idf, title_index, word2vec_model, phase>>

\* rank_bm25(query_terms, index, idf)
RankBm25 ==
    /\ phase = "built"
    /\ out = NoCall
    /\ \E query_terms \in TermLists, order \in Orders(documents) :
          LET r == rank_bm25(query_terms, index, idf, order)
          IN  /\ out' = [op |-> "rank_bm25", query_terms |-> query_terms,
                         raised |-> r.raised, results |-> r.results]
              /\ index' = TouchIndex(index, TfidfReadsIndex(query_terms, index))
    /\ UNCHANGED <<documents, tf, df, idf, title_index, word2vec_model, phase>>

\* an average length equal to the length of the document pid
LenOf(pid, idx) == [raised |-> "", sum |-> compute_doc_len(pid, idx).value, count |-> 1]

\* bm25_score(pid, query_terms, index, idf, avg_len), with the average length
\* of the index or with the length of the document as avg_len
Bm25Score ==
    /\ phase = "built"
    /\ out = NoCall
    /\ \E pid \in Pids(documents), query_terms \in TermLists :
          \E avg_len \in {compute_avg_doc_len(index), LenOf(pid, index)} :
              LET r == bm25_score(pid, query_terms, index, idf, avg_len)
              IN  out' = [op |-> "bm25_score", pid |-> pid, query_terms |-> query_terms,
                          avg_len |-> avg_len, raised |-> r.raised, value |-> r.value]
    /\ UNCHANGED <<documents, index, tf, df, idf, title_index, word2vec_model, phase>>

\* the target rating and the target price of a query (RATINGS, PRICES)
QueryScore == 4
QueryPrice == 15

\* rank_custom_cosine(query_terms, index, tf, idf, corpus, rating, price)
RankCustomCosine ==
    /\ phase = "built"
    /\ out = NoCall
    /\ \E query_terms \in TermLists, order \in Orders(documents),
          corpus \in CorpusArgs(documents) :
          LET r == rank_custom_cosine(query_terms, index, tf, idf, corpus,
                                      QueryScore, QueryPrice, order)
          IN  /\ out' = [op |-> "rank_custom_cosine", query_terms |-> query_terms,
                         corpus |-> corpus, raised |-> r.raised, results |-> r.results]
              /\ index' = TouchIndex(index, TfidfReadsIndex(query_terms, index))
              /\ tf' = Touch(tf, TfidfReadsTf(query_terms, index), <<>>)
    /\ UNCHANGED <<documents, df, idf, title_index, word2vec_model, phase>>

\* the keys of idf and tf that rank_documents reads by subscript
RankDocumentsReads(query, idx) ==
    LET terms == process_query(query)
    IN  IF terms = <<>> \/ \E i \in 1..Len(terms) : ~InIndex(idx, terms[i]) THEN {}
        ELSE Range(terms)

\* search_tfidf(query, index, tf, idf)
SearchTfidf ==
    /\ phase = "built"
    /\ out = NoCall
    /\ \E query \in Queries :
          /\ out' = [op |-> "search_tfidf", query |-> query,
                     docs |-> search_tfidf(query, index, tf, idf)]
          /\ idf' = Touch(idf, RankDocumentsReads(query, index), 0)
          /\ tf' = Touch(tf, RankDocumentsReads(query, index), <<>>)
    /\ UNCHANGED <<documents, index, df, title_index, word2vec_model, phase>>

\* rank_word2vec_cos(query, doc_vectors, model) as main() calls it
RankWord2vecCos ==
    /\ phase = "built"
    /\ out = NoCall
    /\ \E query \in Queries :
          out' = [op |-> "rank_word2vec_cos", query |-> query,
                  raised |-> "",
                  results |-> rank_word2vec_cos(query, DocVectors(documents, W2V), W2V)]
    /\ UNCHANGED <<documents, index, tf, df, idf, title_index, word2vec_model, phase>>

\* SearchEngine.search(query, corpus, method, topN)
Search ==
    /\ phase = "engine"
    /\ out = NoCall
    /\ \E query \in Queries, method \in Methods, order \in Orders(documents) :
       \E corpus \in IF method = "custom" THEN CorpusArgs(documents)
                     ELSE {PlainCorpus(documents)} :
          LET query_terms == process_query(query)
              r == SearchResults(query_terms, corpus, method, word2vec_model,
                                 index, tf, idf, order)
          IN  /\ \E topN \in TopNs :
                    out' = [op |-> "search", query |-> query, corpus |-> corpus,
                            method |-> method, topN |-> topN, raised |-> r.raised,
                            results |-> r.results, pids |-> SearchPids(r, topN)]
              /\ index' = TouchIndex(index, TfidfReadsIndex(query_terms, index))
              /\ tf' = IF method = "word2vec" /\ word2vec_model.loaded THEN tf
                       ELSE Touch(tf, TfidfReadsTf(query_terms, index), <<>>)
    /\ UNCHANGED <<documents, df, idf, title_index, word2vec_model, phase>>

\* process_query(line)
ProcessQuery ==
    /\ out = NoCall
    /\ \E line \in SeqsUpTo(TextWords, MaxWords) :
          out' = [op |-> "process_query", text |-> line, tokens |-> process_query(line)]
    /\ UNCHANGED <<documents, index, tf, df, idf, title_index, word2vec_model, phase>>

\* ProcessedDocument._preprocess_text(text)
PreprocessText ==
    /\ out = NoCall
    /\ \E text \in SeqsUpTo(TextWords, MaxWords) :
          out' = [op |-> "_preprocess_text", text |-> text, tokens |-> _preprocess_text(text)]
    /\ UNCHANGED <<documents, index, tf, df, idf, title_index, word2vec_model, phase>>

\* the corpora whose documents carry no rating, a rating of 0, a rating of 5
\* or a rating that is not a number
RatedCorpora(docs) ==
    [Pids(docs) -> {[average_rating |-> rating, selling_price |-> NoValue] :
                       rating \in {NoValue, Num(0), Num(5), NotANumber}}]

\* SearchEngine.search(query, corpus, "custom", topN) on documents with
\* ratings of every kind
SearchCustom ==
    /\ phase = "engine"
    /\ out = NoCall
    /\ \E query \in Queries, order \in Orders(documents), corpus \in RatedCorpora(documents) :
          LET query_terms == process_query(query)
              r == SearchResults(query_terms, corpus, "custom", word2vec_model,
                                 index, tf, idf, order)
          IN  /\ \E topN \in TopNs :
                    out' = [op |-> "search", query |-> query, corpus |-> corpus,
                            method |-> "custom", topN |-> topN, raised |-> r.raised,
                            results |-> r.results, pids |-> SearchPids(r, topN)]
              /\ index' = TouchIndex(index, TfidfReadsIndex(query_terms, index))
              /\ tf' = Touch(tf, TfidfReadsTf(query_terms, index), <<>>)
    /\ UNCHANGED <<documents, df, idf, title_index, word2vec_model, phase>>

\* the strings of a numeric field: digits, dots, commas and percent signs
NumericStrings == {Str(chars) : chars \in SeqsUpTo({"1", "5", ".", ",", "%"}, MaxChars)}

\* parse_numeric(value) on None, NaN, a number or a string
ParseNumeric ==
    /\ out = NoCall
    /\ \E other \in {NoValue, NaN, Num(5)}, string \in NumericStrings, text \in BOOLEAN :
          LET value == IF text THEN string ELSE other
              r == parse_numeric(value)
          IN  out' = [op |-> "parse_numeric", value |-> value,
                      raised |-> r.raised, result |-> r.result]
    /\ UNCHANGED <<documents, index, tf, df, idf, title_index, word2vec_model, phase>>

\* the call of a metric with a cutoff
AtK(op, r, docs, benchmark, K) ==
    /\ out' = [op |-> op, docs |-> docs, benchmark |-> benchmark, K |-> K,
               raised |-> r.raised, value |-> r.value]
    /\ UNCHANGED <<documents, index, tf, df, idf, title_index, word2vec_model, phase>>

\* the call of a metric on a batch
OnBatch(op, r, batch) ==
    /\ out' = [op |-> op, batch |-> batch, raised |-> r.raised, value |-> r.value]
    /\ UNCHANGED <<documents, index, tf, df, idf, title_index, word2vec_model, phase>>

\* the rankings, and the benchmarks, of a batch of pairs
RankingsOf(batch) == [i \in 1..Len(batch) |-> batch[i][1]]
BenchmarksOf(batch) == [i \in 1..Len(batch) |-> batch[i][2]]

ComputePrecisionAtK ==
    /\ out = NoCall
    /\ \E docs \in IdLists, benchmark \in IdLists, K \in Cutoffs :
           AtK("compute_precision_at_K", compute_precision_at_K(docs, benchmark, K),
               docs, benchmark, K)

ComputeRecallAtK ==
    /\ out = NoCall
    /\ \E docs \in IdLists, benchmark \in IdLists, K \in Cutoffs :
           AtK("compute_recall_at_K", compute_recall_at_K(docs, benchmark, K),
               docs, benchmark, K)

ComputeAveragePrecisionAtK ==
    /\ out = NoCall
    /\ \E docs \in IdLists, benchmark \in IdLists, K \in Cutoffs :
           AtK("compute_average_precision_at_K",
               compute_average_precision_at_K(docs, benchmark, K), docs, benchmark, K)

ComputeF1ScoreAtK ==
    /\ out = NoCall
    /\ \E docs \in IdLists, benchmark \in IdLists, K \in Cutoffs :
           AtK("compute_F1_score_at_K", compute_F1_score_at_K(docs, benchmark, K),
               docs, benchmark, K)

ComputeMeanAveragePrecision ==
    /\ out = NoCall
    /\ \E batch \in SeqsUpTo(BatchPairs, MaxBatch) :
           OnBatch("compute_mean_average_precision",
                   compute_mean_average_precision(RankingsOf(batch), BenchmarksOf(batch)),
                   batch)

ComputeMeanReciprocalRank ==
    /\ out = NoCall
    /\ \E batch \in SeqsUpTo(BatchPairs, MaxBatch) :
           OnBatch("compute_mean_reciprocal_rank",
                   compute_mean_reciprocal_rank(RankingsOf(batch), BenchmarksOf(batch)),
                   batch)

ComputeNormalizedDiscountedCumulativeGain ==
    /\ out = NoCall
    /\ \E docs \in IdLists, benchmark \in IdLists :
           LET r == compute_normalized_discounted_cumulative_gain(docs, benchmark)
           IN  out' = [op |-> "compute_normalized_discounted_cumulative_gain",
                       docs |-> docs, benchmark |-> benchmark,
                       raised |-> r.raised, value |-> r.value]
    /\ UNCHANGED <<documents, index, tf, df, idf, title_index, word2vec_model, phase>>

\* the caller takes what the call gave; the process goes on to its next call
Return ==
    /\ out # NoCall
    /\ out' = NoCall
    /\ UNCHANGED <<documents, index, tf, df, idf, title_index, word2vec_model, phase>>

Next ==
    \/ CreateIndexTfidf
    \/ RankTfidfCosine
    \/ RankBm25
    \/ RankCustomCosine
    \/ SearchTfidf
    \/ RankWord2vecCos
    \/ Return

\* the ranking functions on the tables create_index_tfidf built
Spec == Init /\ [][Next]_vars

\* the index builder alone
NextIndex ==
    \/ CreateIndexTfidf
    \/ Return

SpecIndex == Init /\ [][NextIndex]_vars

NextEngine ==
    \/ Next
    \/ SearchEngineFromCorpus
    \/ Search

\* the engine constructed on a corpus, beside the ranking functions it calls
SpecEngine == InitEngine /\ [][NextEngine]_vars

NextLoad ==
    \/ SearchEngineFromIndex
    \/ Search
    \/ Return

\* the engine on the tables of a stored index artifact
SpecLoad == InitStored /\ [][NextLoad]_vars

\* the scenario corpus under the ranking functions
SpecScenario == InitScenario /\ [][Next]_vars

\* a process that evaluates rankings: it holds no corpus
InitEval == Start({<<>>})

NextEval ==
    \/ ComputePrecisionAtK
    \/ ComputeRecallAtK
    \/ ComputeAveragePrecisionAtK
    \/ ComputeF1ScoreAtK
    \/ ComputeMeanAveragePrecision
    \/ ComputeMeanReciprocalRank
    \/ ComputeNormalizedDiscountedCumulativeGain
    \/ Return

\* the evaluation metrics
SpecEval == InitEval /\ [][NextEval]_vars

NextText ==
    \/ ProcessQuery
    \/ PreprocessText
    \/ Return

\* the two normalizers
SpecText == InitEval /\ [][NextText]_vars

NextCustom ==
    \/ SearchEngineFromCorpus
    \/ SearchCustom
    \/ Return

\* the custom method of the engine
SpecCustom == InitEngine /\ [][NextCustom]_vars

NextNumeric ==
    \/ ParseNumeric
    \/ Return

\* the parser of numeric fields
SpecNumeric == InitEval /\ [][NextNumeric]_vars

NextScore ==
    \/ CreateIndexTfidf
    \/ Bm25Score
    \/ Return

\* the BM25 formula on the documents of a built index
SpecScore == Init /\ [][NextScore]_vars

----------------------------------------------------------------------------
(* The properties *)

\* the scores of a list of (pid, score) never rise from one place to the next
NonIncreasing(results) ==
    \A i \in 1..(Len(results) - 1) : results[i][2] >= results[i + 1][2]

\* no element of a sequence occurs twice
NoRepeat(s) == \A i, j \in 1..Len(s) : i # j => s[i] # s[j]

\* the tokens of the search_text of the documents
TokensOf(docs) == UNION {Range(ProcessedCorpus(docs)[i].search_text) : i \in 1..Len(docs)}

\* the documents that have a posting under every term of a list; none when
\* the list is empty or a term has no key
InAllPostings(terms, idx) ==
    IF terms = <<>> \/ \E i \in 1..Len(terms) : terms[i] \notin DOMAIN idx.at THEN {}
    ELSE {d \in Pids(documents) :
            \A i \in 1..Len(terms) :
                \E k \in 1..Len(idx.at[terms[i]]) : idx.at[terms[i]][k][1] = d}

\* an index that lacks the key t
WithoutTerm(idx, t) ==
    [keys |-> SelectSeq(idx.keys, LAMBDA k : k # t),
     at   |-> [k \in (DOMAIN idx.at) \ {t} |-> idx.at[k]]]

\* the ids search returns when `results` is the TF-IDF cosine ranking
TfidfPids(query, topN) ==
    {Ids(Prefix(rank_tfidf_cosine(process_query(query), index, tf, idf, o).results, topN))
        : o \in Orders(documents)}

\* C1: after create_index_tfidf every term of the index has as many postings
\* as tf entries, and df[term] is that number
C1_PostingsTfDfAgree ==
    phase = "built" =>
        \A t \in DOMAIN index.at :
            /\ t \in DOMAIN tf
            /\ t \in DOMAIN df
            /\ Len(index.at[t]) = Len(tf[t])
            /\ Len(tf[t]) = df[t]

\* a built index with a term that two documents hold, one of them twice
C1_Witness ==
    /\ phase = "built"
    /\ \E t \in DOMAIN df :
          /\ df[t] >= 2
          /\ \E i \in 1..Len(index.at[t]) : Len(index.at[t][i][2]) >= 2

\* C2: the documents the TF-IDF ranking returns (rank_tfidf_cosine and
\* search_tfidf) are exactly those with a posting under every query term, each
\* once; there are none when a term has no key or the query has no terms, so
\* the same query on an index that lacks one of its terms returns nothing
C2_CandidatesAreIntersection ==
    /\ out.op = "rank_tfidf_cosine" =>
          /\ Range(Ids(out.results)) = InAllPostings(out.query_terms, index)
          /\ NoRepeat(Ids(out.results))
          /\ \A i \in 1..Len(out.query_terms), o \in Orders(documents) :
                rank_tfidf_cosine(out.query_terms, WithoutTerm(index, out.query_terms[i]),
                                  tf, idf, o).results = <<>>
    /\ out.op = "search_tfidf" =>
          /\ Range(out.docs) = InAllPostings(process_query(out.query), index)
          /\ NoRepeat(out.docs)
          /\ \A t \in Range(process_query(out.query)) :
                search_tfidf(out.query, WithoutTerm(index, t), tf, idf) = <<>>

\* search_tfidf on two different terms returned documents, fewer than one of
\* the terms has
C2_Witness ==
    /\ out.op = "search_tfidf"
    /\ Cardinality(Range(process_query(out.query))) = 2
    /\ out.docs # <<>>
    /\ \E t \in Range(process_query(out.query)) :
          Cardinality(PostingDocs(index.at[t])) > Len(out.docs)

\* C3: on the index of D1 = red cotton shirt, D2 = blue cotton shirt,
\* D3 = red silk dress, the terms red, cotton rank exactly D1 under TF-IDF and
\* exactly D1, with a score above zero, under BM25
C3_ScenarioRanksD1 ==
    /\ \A i \in 1..Len(documents) :
          ProcessedCorpus(documents)[i].search_text = ScenarioCorpus[i].title
    /\ (out.op = "rank_tfidf_cosine" /\ out.query_terms = <<"red", "cotton">>) =>
          (out.raised = "" /\ Ids(out.results) = <<"D1">>)
    /\ (out.op = "rank_bm25" /\ out.query_terms = <<"red", "cotton">>) =>
          (out.raised = "" /\ Ids(out.results) = <<"D1">> /\ out.results[1][2] > 0)

\* rank_bm25 answered the terms red, cotton on the scenario's index
C3_Witness ==
    /\ documents = ScenarioCorpus
    /\ DOMAIN index.at = {"red", "cotton", "shirt", "blue", "silk", "dress"}
    /\ out.op = "rank_bm25"
    /\ out.query_terms = <<"red", "cotton">>
    /\ out.results # <<>>

\* C4: rank_tfidf_cosine, rank_bm25, rank_custom_cosine, rank_word2vec_cos and
\* the custom branch of SearchEngine.search return their pairs with scores
\* that never rise
C4_ScoresNonIncreasing ==
    (\/ out.op \in {"rank_tfidf_cosine", "rank_bm25", "rank_custom_cosine",
                    "rank_word2vec_cos"}
     \/ (out.op = "search" /\ out.method = "custom"))
        => NonIncreasing(out.results)

\* the custom branch put D2, boosted by its rating, ahead of D1
C4_Witness ==
    /\ out.op = "search"
    /\ out.method = "custom"
    /\ Len(out.results) >= 2
    /\ out.results[1][1] = "D2"
    /\ out.results[2][1] = "D1"
    /\ out.results[1][2] > out.results[2][2]

\* C5: for a topN of zero or more, SearchEngine.search returns ids, topN of
\* them at most, that are the first ids of the ranking of its method
C5_ReturnsPrefixOfRanking ==
    (out.op = "search" /\ out.topN >= 0) =>
        /\ out.raised = ""
        /\ Len(out.pids) <= out.topN
        /\ out.pids = SubSeq(Ids(out.results), 1, Len(out.pids))

\* C6: whatever queries rank_tfidf_cosine, rank_bm25, rank_custom_cosine,
\* search_tfidf and SearchEngine.search have answered, index, tf and idf are
\* as create_index_tfidf built them
C6_QueriesLeaveTablesAsBuilt ==
    phase \in {"built", "engine"} =>
        LET r == create_index_tfidf(ProcessedCorpus(documents))
        IN  /\ index = r.index
            /\ tf = r.tf
            /\ idf = r.idf

\* a ranker answered a query with a term the index has no key for, on an
\* index that has keys
C6_Witness ==
    /\ out.op \in {"rank_tfidf_cosine", "rank_bm25", "rank_custom_cosine"}
    /\ index.keys # <<>>
    /\ \E i \in 1..Len(out.query_terms) : out.query_terms[i] \notin DOMAIN index.at
    /\ \E i \in 1..Len(out.query_terms) : out.query_terms[i] \in DOMAIN index.at

\* C7: with an index without keys, SearchEngine.search returns no ids and
\* raises nothing, whatever the query and the method
C7_EmptyIndexEmptyResult ==
    (out.op = "search" /\ index.keys = <<>>) =>
        (out.raised = "" /\ out.pids = <<>>)

\* C8: when rank_bm25 raises, SearchEngine.search with method bm25 raises
\* nothing and returns the ids of the TF-IDF cosine ranking of the query
C8_Bm25FailureFallsBack ==
    (/\ out.op = "search"
     /\ out.method = "bm25"
     /\ \E o \in Orders(documents) :
           rank_bm25(process_query(out.query), index, idf, o).raised # "")
        => (out.raised = "" /\ out.pids \in TfidfPids(out.query, out.topN))

\* C9: without an embedding table, SearchEngine.search with the embedding
\* method raises nothing and returns the ids of the TF-IDF cosine ranking of
\* the query, in its order
C9_NoModelFallsBackToTfidf ==
    (/\ out.op = "search"
     /\ out.method \in {"word2vec", "embedding"}
     /\ ~word2vec_model.loaded)
        => (out.raised = "" /\ out.pids \in TfidfPids(out.query, out.topN))

\* the word2vec method, asked of an engine without a table, returned a document
C9_Witness ==
    /\ out.op = "search"
    /\ out.method = "word2vec"
    /\ ~word2vec_model.loaded
    /\ out.pids # <<>>

\* C10: after create_index_tfidf over N documents, index, tf, df and idf have
\* the same keys, the tokens of the documents; every df is between 1 and N;
\* every idf is zero or more, zero for the terms of every document only, and
\* smaller the larger df is
C10_KeysAndDfBounds ==
    phase = "built" =>
        LET N == Len(documents)
            terms == TokensOf(documents)
        IN  /\ DOMAIN index.at = terms
            /\ Range(index.keys) = terms
            /\ DOMAIN tf = terms
            /\ DOMAIN df = terms
            /\ DOMAIN idf = terms
            /\ \A t \in terms :
                  /\ 1 <= df[t]
                  /\ df[t] <= N
                  /\ idf[t] >= 0
                  /\ (idf[t] = 0) <=> (df[t] = N)
            /\ \A t, u \in terms : df[t] < df[u] => idf[t] > idf[u]

\* a built index with a term of every document and a term of fewer
C10_Witness ==
    /\ phase = "built"
    /\ Len(documents) >= 2
    /\ \E t, u \in DOMAIN df : df[t] = Len(documents) /\ df[u] < Len(documents)

\* the place of the document pid in the corpus, 0 when it is not there
PlaceOf(pid) ==
    IF \E i \in 1..Len(documents) : documents[i].pid = pid
    THEN CHOOSE i \in 1..Len(documents) : documents[i].pid = pid
    ELSE 0

\* how many times a term occurs in a text
Occurrences(text, term) == Cardinality({p \in 1..Len(text) : text[p] = term})

\* the sum, over the terms of a text, of the squared occurrence counts
SquaredCounts(text) ==
    LET counts == [t \in Range(text) |-> Occurrences(text, t) * Occurrences(text, t)]
    IN  SumOver(counts, Range(text))

\* C11: the postings of every term follow the order in which the documents
\* were processed, and tf[term][i] is the occurrence count of the term in the
\* document of the i-th posting, divided by the norm of that document
C11_PostingsInOrderTfAligned ==
    phase = "built" =>
        \A t \in DOMAIN index.at :
            /\ Len(tf[t]) = Len(index.at[t])
            /\ \A i \in 1..Len(index.at[t]) :
                  LET place == PlaceOf(index.at[t][i][1])
                      text == ProcessedCorpus(documents)[place].search_text
                  IN  /\ place # 0
                      /\ \A j \in 1..(i - 1) : PlaceOf(index.at[t][j][1]) < place
                      /\ Occurrences(text, t) = Len(index.at[t][i][2])
                      /\ tf[t][i] = Round4Ratio(Occurrences(text, t), SquaredCounts(text))

\* a term of two documents that has a different tf in each
C11_Witness ==
    /\ phase = "built"
    /\ \E t \in DOMAIN tf : Len(tf[t]) >= 2 /\ tf[t][1] # tf[t][2]

\* C12: create_index_tfidf on no documents gives empty index, tf, df and idf;
\* a document without tokens gets no posting, no tf entry and no df count,
\* is counted in N all the same, and has its title in the title index
C12_DegenerateInput ==
    phase = "built" =>
        LET corpus == ProcessedCorpus(documents)
            holders(t) == {i \in 1..Len(corpus) : t \in Range(corpus[i].search_text)}
        IN  /\ documents = <<>> =>
                  (index = EmptyIndex /\ tf = EmptyDict /\ df = EmptyDict /\ idf = EmptyDict)
            /\ \A i \in 1..Len(corpus) :
                  /\ corpus[i].pid \in DOMAIN title_index
                  /\ title_index[corpus[i].pid] = corpus[i].title
                  /\ corpus[i].search_text = <<>> =>
                        \A t \in DOMAIN index.at : corpus[i].pid \notin PostingDocs(index.at[t])
            /\ \A t \in DOMAIN index.at :
                  /\ Len(index.at[t]) = Cardinality(holders(t))
                  /\ Len(tf[t]) = Cardinality(holders(t))
                  /\ df[t] = Cardinality(holders(t))
                  /\ (idf[t] = 0) <=> (df[t] = Len(documents))

\* a built index over a document without tokens and a document with some
C12_Witness ==
    /\ phase = "built"
    /\ \E i, j \in 1..Len(documents) :
          /\ ProcessedCorpus(documents)[i].search_text = <<>>
          /\ ProcessedCorpus(documents)[j].search_text # <<>>
    /\ index.keys # <<>>

----------------------------------------------------------------------------
(* The evaluation metrics *)

\* the ranks of list whose id is in within
HitRanks(list, within) == {i \in 1..Len(list) : list[i] \in Range(within)}

\* the sum of f over a finite set of ranks
RECURSIVE FracSumOver(_, _)
FracSumOver(f(_), S) ==
    IF S = {} THEN Zero
    ELSE LET i == CHOOSE x \in S : TRUE
         IN  FracAdd(f(i), FracSumOver(f, S \ {i}))

\* the number of ranks of docs[:K] with an id of benchmark, over min(K, len(docs))
ExpectedPrecision(docs, benchmark, K) ==
    IF K = 0 \/ docs = <<>> THEN Zero
    ELSE Frac(Cardinality(HitRanks(Prefix(docs, K), benchmark)), Min2(K, Len(docs)))

\* the number of ranks of benchmark[:K'] with an id of docs, over K' = min(K, len(benchmark))
ExpectedRecall(docs, benchmark, K) ==
    IF K = 0 \/ benchmark = <<>> THEN Zero
    ELSE LET k == Min2(K, Len(benchmark))
         IN  Frac(Cardinality(HitRanks(Prefix(benchmark, k), docs)), k)

\* the sum, over the hits of docs[:K], of h/i for the h-th hit at rank i, over the hits
ExpectedAveragePrecision(docs, benchmark, K) ==
    LET hits == HitRanks(Prefix(docs, K), benchmark)
        at(i) == Frac(Cardinality({j \in hits : j <= i}), i)
    IN  IF hits = {} THEN Zero
        ELSE FracDiv(FracSumOver(at, hits), Frac(Cardinality(hits), 1))

\* C13: compute_precision_at_K(docs, benchmark, K) returns the number of ids
\* of docs[:K] that are in benchmark, each rank of docs[:K] counted, over
\* min(K, len(docs)); it returns 0 when K is 0 or docs is empty, whatever docs
\* and benchmark hold; where docs[:K] repeats no id the count is the size of
\* the intersection of docs[:K] with benchmark
C13_PrecisionAtK ==
    out.op = "compute_precision_at_K" =>
        /\ out.raised = ""
        /\ out.value = ExpectedPrecision(out.docs, out.benchmark, out.K)
        /\ (out.K = 0 \/ out.docs = <<>>) => out.value = Zero
        /\ (out.K # 0 /\ out.docs # <<>> /\ NoRepeat(Prefix(out.docs, out.K))) =>
               out.value = Frac(Cardinality(Range(Prefix(out.docs, out.K))
                                                \cap Range(out.benchmark)),
                                Min2(out.K, Len(out.docs)))

\* a cutoff beyond the end of a ranking of which one id in two is relevant
C13_Witness ==
    /\ out.op = "compute_precision_at_K"
    /\ out.K > Len(out.docs)
    /\ out.value = Frac(1, 2)

\* C14: compute_recall_at_K(docs, benchmark, K) cuts the benchmark, not the
\* ranking, at K' = min(K, len(benchmark)) and returns the number of ids of
\* benchmark[:K'] that are in docs over K'; it returns 0 when K is 0 or the
\* benchmark is empty
C14_RecallAtK ==
    out.op = "compute_recall_at_K" =>
        /\ out.raised = ""
        /\ out.value = ExpectedRecall(out.docs, out.benchmark, out.K)
        /\ (out.K = 0 \/ out.benchmark = <<>>) => out.value = Zero

\* the ranking holds a relevant id, the benchmark cut at K holds none of the ranking
C14_Witness ==
    /\ out.op = "compute_recall_at_K"
    /\ out.K > 0
    /\ out.K < Len(out.benchmark)
    /\ Len(out.docs) > out.K
    /\ Range(out.docs) \cap Range(out.benchmark) # {}
    /\ out.value = Zero

\* C15: compute_F1_score_at_K returns 0 when precision@K and recall@K of the
\* same inputs are both 0, and otherwise their harmonic mean 2*P*R/(P+R)
C15_F1IsHarmonicMean ==
    out.op = "compute_F1_score_at_K" =>
        LET P == ExpectedPrecision(out.docs, out.benchmark, out.K)
            R == ExpectedRecall(out.docs, out.benchmark, out.K)
        IN  /\ out.raised = ""
            /\ IF P = Zero /\ R = Zero THEN out.value = Zero
               ELSE /\ FracAdd(P, R) # Zero
                    /\ FracMul(out.value, FracAdd(P, R)) = FracMul(Frac(2, 1), FracMul(P, R))

\* precision and recall differ and neither is 0
C15_Witness ==
    /\ out.op = "compute_F1_score_at_K"
    /\ out.K > 0
    /\ ExpectedPrecision(out.docs, out.benchmark, out.K) = Frac(1, 2)
    /\ ExpectedRecall(out.docs, out.benchmark, out.K) = Frac(1, 1)
    /\ out.value = Frac(2, 3)

\* C16: compute_average_precision_at_K walks docs[:K] in rank order and, for
\* the relevant document at 1-based rank i that is the h-th hit, adds h/i; it
\* returns the sum over the number of hits, and 0 without a hit
C16_AveragePrecisionAtK ==
    out.op = "compute_average_precision_at_K" =>
        /\ out.raised = ""
        /\ out.value = ExpectedAveragePrecision(out.docs, out.benchmark, out.K)
        /\ HitRanks(Prefix(out.docs, out.K), out.benchmark) = {} => out.value = Zero

\* hits at ranks 1 and 3 with a miss between: (1/1 + 2/3) / 2
C16_Witness ==
    /\ out.op = "compute_average_precision_at_K"
    /\ HitRanks(Prefix(out.docs, out.K), out.benchmark) = {1, 3}
    /\ out.value = Frac(5, 6)

\* a metric with a cutoff was called on the scenario ranking and benchmark with K = 3
OnScenario(op) ==
    /\ out.op = op
    /\ out.docs = ScenarioRanking
    /\ out.benchmark = ScenarioBenchmark
    /\ out.K = 3

\* C17: with benchmark [D1, D2, D3], ranking [D3, D1, D2] and K = 3, recall@3
\* is 1.0, precision@3 is 1.0 and average_precision@3 is (1/1 + 2/2 + 3/3)/3,
\* that is 1.0: every rank of the ranking is a hit
C17_ScenarioMetrics ==
    /\ OnScenario("compute_recall_at_K") => (out.raised = "" /\ out.value = Frac(1, 1))
    /\ OnScenario("compute_precision_at_K") => (out.raised = "" /\ out.value = Frac(1, 1))
    /\ OnScenario("compute_average_precision_at_K") =>
           /\ out.raised = ""
           /\ out.value = FracDiv(FracAdd(Frac(1, 1), FracAdd(Frac(2, 2), Frac(3, 3))),
                                  Frac(3, 1))
           /\ out.value = Frac(1, 1)

\* average_precision@3 was computed on the scenario
C17_Witness == OnScenario("compute_average_precision_at_K")

\* C17 as stated: on the scenario average_precision@3 is (1/2 + 2/3 + 3/3)/3,
\* about 0.7222, with recall@3 and precision@3 both 1.0
C17_ScenarioAsStated ==
    /\ OnScenario("compute_recall_at_K") => (out.raised = "" /\ out.value = Frac(1, 1))
    /\ OnScenario("compute_precision_at_K") => (out.raised = "" /\ out.value = Frac(1, 1))
    /\ OnScenario("compute_average_precision_at_K") =>
           /\ out.raised = ""
           /\ out.value = FracDiv(FracAdd(Frac(1, 2), FracAdd(Frac(2, 3), Frac(3, 3))),
                                  Frac(3, 1))

\* average_precision with K = len(ranking) of each pair of a batch
AveragePrecisions(batch) ==
    [i \in 1..Len(batch) |->
        ExpectedAveragePrecision(batch[i][1], batch[i][2], Len(batch[i][1]))]

\* C18: compute_mean_average_precision over a batch of (ranking, benchmark)
\* pairs returns the arithmetic mean, over the pairs of the batch, of
\* average_precision with K = len(ranking) of the pair; the mean of no pair is
\* a division by zero
C18_MapIsMeanOfAveragePrecision ==
    out.op = "compute_mean_average_precision" =>
        IF out.batch = <<>> THEN out.raised = "ZeroDivisionError"
        ELSE /\ out.raised = ""
             /\ FracMul(out.value, Frac(Len(out.batch), 1))
                    = FracSumSeq(AveragePrecisions(out.batch))

\* two pairs whose average precisions are 1 and 1/2
C18_Witness ==
    /\ out.op = "compute_mean_average_precision"
    /\ Len(out.batch) = 2
    /\ AveragePrecisions(out.batch) = <<Frac(1, 1), Frac(1, 2)>>
    /\ out.value = Frac(3, 4)

\* 1 / (the rank of the first relevant document) of each pair of a batch, 0 without one
ReciprocalRanks(batch) ==
    [i \in 1..Len(batch) |->
        LET hits == HitRanks(batch[i][1], batch[i][2])
        IN  IF hits = {} THEN Zero
            ELSE Frac(1, CHOOSE r \in hits : \A h \in hits : r <= h)]

\* C19: compute_mean_reciprocal_rank over a batch returns the mean, over the
\* pairs of the batch, of 1 / (1-based rank of the first relevant document of
\* the ranking), 0 for a ranking without one; the pair of ranking [D3, D1, D2]
\* and benchmark [D1, D2, D3] contributes 1.0
C19_MrrIsMeanReciprocalRank ==
    out.op = "compute_mean_reciprocal_rank" =>
        IF out.batch = <<>> THEN out.raised = "ZeroDivisionError"
        ELSE /\ out.raised = ""
             /\ FracMul(out.value, Frac(Len(out.batch), 1))
                    = FracSumSeq(ReciprocalRanks(out.batch))
             /\ out.batch = <<(<<ScenarioRanking, ScenarioBenchmark>>)>> =>
                    out.value = Frac(1, 1)

\* the scenario pair, a pair whose first hit is at rank 2 and their mean
C19_Witness ==
    /\ out.op = "compute_mean_reciprocal_rank"
    /\ Len(out.batch) = 2
    /\ out.batch[1] = <<ScenarioRanking, ScenarioBenchmark>>
    /\ ReciprocalRanks(out.batch) = <<Frac(1, 1), Frac(1, 2)>>
    /\ out.value = Frac(3, 4)

\* the evaluation functions
Metrics ==
    {"compute_precision_at_K", "compute_recall_at_K", "compute_average_precision_at_K",
     "compute_F1_score_at_K", "compute_mean_average_precision",
     "compute_mean_reciprocal_rank", "compute_normalized_discounted_cumulative_gain"}

\* C20: every value an evaluation function returns lies in [0, 1], for every
\* ranked id list, every benchmark and every integer cutoff K, lists with
\* repeated ids included
C20_ValuesInUnitInterval ==
    (out.op \in Metrics /\ out.raised = "") =>
        (0 <= out.value.num /\ out.value.num <= out.value.den)

----------------------------------------------------------------------------
(* BM25 *)

\* the index in which term occurs once more in the document pid
Grow(idx, term, pid) ==
    LET i == DocIndex(idx.at[term], pid)
    IN  [idx EXCEPT !.at[term][i][2] = Append(@, Len(@))]

\* C21: with k1 = 1.5 and b = 0.75, for a document whose length is the
\* average length, the score of bm25_score does not decrease when a query
\* term occurs once more in the document, the occurrences of the other terms
\* being the same and the length of the document still the average length
C21_Bm25NonDecreasingInFreq ==
    (/\ out.op = "bm25_score"
     /\ out.raised = ""
     /\ out.avg_len = LenOf(out.pid, index))
        => \A t \in Range(out.query_terms) :
               (InIndex(index, t) /\ Freq(out.pid, index, t) # 0) =>
                   LET more == Grow(index, t, out.pid)
                       r == bm25_score(out.pid, out.query_terms, more, idf,
                                       LenOf(out.pid, more))
                   IN  /\ Freq(out.pid, more, t) = Freq(out.pid, index, t) + 1
                       /\ \A u \in Range(out.query_terms) \ {t} :
                              InIndex(more, u) =>
                                  Freq(out.pid, more, u) = Freq(out.pid, index, u)
                       /\ r.raised = ""
                       /\ r.value >= out.value

\* a document of average length whose score grows with one occurrence more
C21_Witness ==
    /\ out.op = "bm25_score"
    /\ out.raised = ""
    /\ out.avg_len = LenOf(out.pid, index)
    /\ out.value > 0
    /\ \E t \in Range(out.query_terms) :
           /\ InIndex(index, t)
           /\ Freq(out.pid, index, t) # 0
           /\ bm25_score(out.pid, out.query_terms, Grow(index, t, out.pid), idf,
                         LenOf(out.pid, Grow(index, t, out.pid))).value > out.value

----------------------------------------------------------------------------
(* Text normalization *)

\* C22: for every text the query normalizer process_query returns the token
\* sequence the document normalizer ProcessedDocument._preprocess_text
\* returns, and every term of a query is a term the index holds for a
\* document of the same text
C22_NormalizersAgree ==
    out.op = "process_query" =>
        /\ out.tokens = _preprocess_text(out.text)
        /\ Range(out.tokens) \subseteq Range(_combine_search_text([title |-> out.text]))

----------------------------------------------------------------------------
(* Postings *)

\* C23: after create_index_tfidf on documents with unique ids, every
\* document id occurs at most once in index[t] for every term t, and its
\* position list is non-empty, strictly ascending, made of the zero-based
\* places of t in the search_text of the document, and as long as the number
\* of occurrences of t there
C23_OnePostingPerDocument ==
    phase = "built" =>
        \A t \in DOMAIN index.at :
            \A i \in 1..Len(index.at[t]) :
                LET posting == index.at[t][i]
                    positions == posting[2]
                    text == ProcessedCorpus(documents)[PlaceOf(posting[1])].search_text
                IN  /\ \A j \in 1..Len(index.at[t]) : j # i => index.at[t][j][1] # posting[1]
                    /\ positions # <<>>
                    /\ \A k \in 1..(Len(positions) - 1) : positions[k] < positions[k + 1]
                    /\ \A k \in 1..Len(positions) :
                          /\ positions[k] \in 0..(Len(text) - 1)
                          /\ text[positions[k] + 1] = t
                    /\ Len(positions) = Occurrences(text, t)

\* a document that holds a term twice, beside another document that holds it
C23_Witness ==
    /\ phase = "built"
    /\ \E t \in DOMAIN index.at :
           /\ Len(index.at[t]) >= 2
           /\ \E i \in 1..Len(index.at[t]) : index.at[t][i][2] = <<0, 1>>

----------------------------------------------------------------------------
(* Document lengths *)

\* the documents that appear in a posting list
Holders(idx) == {AllPostings(idx)[i][1] : i \in 1..Len(AllPostings(idx))}

\* the sum, over the terms a document appears in, of the lengths of its position lists
LengthOf(pid, idx) ==
    SumOver([t \in DOMAIN idx.at |->
                IF DocIndex(idx.at[t], pid) = 0 THEN 0
                ELSE Len(idx.at[t][DocIndex(idx.at[t], pid)][2])],
            DOMAIN idx.at)

\* C24: in rank_bm25 the length of a document is the sum of the lengths of
\* its position lists over the terms it appears in, and the average length
\* handed to the scoring formula is the mean of those lengths over the
\* documents that appear in a posting list
C24_LengthsAndAverage ==
    (out.op = "rank_bm25" /\ out.raised = "" /\ out.results # <<>>) =>
        LET avg_len == compute_avg_doc_len(index)
            lengths == [p \in Holders(index) |-> LengthOf(p, index)]
        IN  /\ \A p \in Holders(index) : compute_doc_len(p, index).value = lengths[p]
            /\ avg_len.sum * Cardinality(Holders(index))
                   = SumOver(lengths, Holders(index)) * avg_len.count

----------------------------------------------------------------------------
(* The custom method *)

\* baseScore * (1 + rating / 10) for a numeric rating, baseScore otherwise
ExpectedBoost(score, rating) ==
    IF rating.kind = "num" THEN (score * (10 + rating.value)) \div 10 ELSE score

\* C25: SearchEngine.search with method custom raises nothing and maps each
\* (document, baseScore) pair of the TF-IDF result to baseScore * (1 +
\* rating / 10) when the document carries a numeric average_rating and to
\* baseScore when the rating is absent or is not a number; the result holds
\* exactly the documents of the TF-IDF result, by descending boosted score
C25_CustomBoostsByRating ==
    (out.op = "search" /\ out.method = "custom") =>
        \E order \in Orders(documents) :
            LET base == rank_tfidf_cosine(process_query(out.query), index, tf, idf,
                                          order).results
            IN  /\ out.raised = ""
                /\ Len(out.results) = Len(base)
                /\ Range(out.results)
                       = {<<base[i][1],
                            ExpectedBoost(base[i][2], out.corpus[base[i][1]].average_rating)>>
                              : i \in 1..Len(base)}
                /\ NonIncreasing(out.results)

\* a document with a rating of 5 went ahead of one whose rating is not a
\* number and kept its base score
C25_Witness ==
    /\ out.op = "search"
    /\ out.method = "custom"
    /\ Len(out.results) = 2
    /\ out.corpus[out.results[1][1]].average_rating = Num(5)
    /\ out.corpus[out.results[2][1]].average_rating = NotANumber
    /\ out.results[1][2] > out.results[2][2]
    /\ out.results[2][2] > 0
    /\ out.results[1][1] = "D2"
    /\ out.results[2][1] = "D1"

----------------------------------------------------------------------------
(* Repeated query terms *)

\* the [score, doc] pairs rank_documents sorts for a query of search_tfidf
PairsOf(query) ==
    LET query_terms == process_query(query)
    IN  IF query_terms = <<>> \/ \E i \in 1..Len(query_terms) : ~InIndex(index, query_terms[i])
        THEN <<>>
        ELSE RankedPairs(query_terms, SearchTfidfDocs(query_terms, index), index, idf, tf)

\* C26: in the TF-IDF ranking a term that occurs more than once in the
\* query has no extra weight: two lists of query terms with the same distinct
\* terms give every candidate the same score and give the same ranking, with
\* rank_tfidf_cosine and with search_tfidf / rank_documents
C26_RepeatedTermNoExtraWeight ==
    /\ out.op = "rank_tfidf_cosine" =>
           \A other \in TermLists :
               Range(other) = Range(out.query_terms) =>
                   \E order \in Orders(documents) :
                       rank_tfidf_cosine(other, index, tf, idf, order).results = out.results
    /\ out.op = "search_tfidf" =>
           \A other \in Queries :
               Range(process_query(other)) = Range(process_query(out.query)) =>
                   /\ search_tfidf(other, index, tf, idf) = out.docs
                   /\ PairsOf(other) = PairsOf(out.query)

----------------------------------------------------------------------------
(* Documents without a vector *)

\* C27: a document none of whose words is in the embedding vocabulary has no
\* vector and is in no result of rank_word2vec_cos, whatever the query
C27_NoVectorNoResult ==
    out.op = "rank_word2vec_cos" =>
        \A i \in 1..Len(documents) :
            (\A k \in 1..Len(documents[i].title) : documents[i].title[k] \notin DOMAIN W2V.vec)
                => /\ text_vector(documents[i].title, W2V).none
                   /\ documents[i].pid \notin Range(Ids(out.results))

----------------------------------------------------------------------------
(* Numeric fields *)

\* the digits and dots of a string, in their order
DigitsAndDots(chars) == SelectSeq(chars, LAMBDA c : c \in {"1", "5", "."})

\* the number that digits around one dot denote: integer part plus fraction
Denoted(s) ==
    LET dot == IF \E i \in 1..Len(s) : s[i] = "." THEN CHOOSE i \in 1..Len(s) : s[i] = "."
               ELSE Len(s) + 1
        whole == SubSeq(s, 1, dot - 1)
        part == SubSeq(s, dot + 1, Len(s))
    IN  FracAdd(Frac(NumberOf(whole), 1), Frac(NumberOf(part), Pow10(Len(part))))

\* C28: parse_numeric never raises; of a string it parses what is left once
\* every character that is not a digit or a dot is stripped; it returns None
\* when nothing is left, when what is left is not a float (more than one dot,
\* or no digit), and when the input is None or NaN
C28_ParseNumericDegrades ==
    out.op = "parse_numeric" =>
        /\ out.raised = ""
        /\ out.value.kind \in {"none", "nan"} => out.result.kind = "none"
        /\ out.value.kind = "str" =>
               LET left == DigitsAndDots(out.value.value)
                   dots == Cardinality({i \in 1..Len(left) : left[i] = "."})
               IN  IF left = <<>> \/ dots > 1 \/ dots = Len(left)
                   THEN out.result.kind = "none"
                   ELSE out.result.kind = "num" /\ out.result.value = Denoted(left)

\* a string with a dot, a digit and a percent sign that parses to 0.5
C28_Witness ==
    /\ out.op = "parse_numeric"
    /\ out.value.kind = "str"
    /\ "%" \in Range(out.value.value)
    /\ out.result.kind = "num"
    /\ out.result.value = Frac(1, 2)

----------------------------------------------------------------------------
(* One candidate set for every ranker *)

\* the sets of ids that the four rankers return for a list of query terms
\* on the tables of the state, whatever the iteration order of the candidates
IdSetsOf(terms) ==
    {Range(search_tfidf(terms, index, tf, idf))}
    \cup {Range(Ids(rank_tfidf_cosine(terms, index, tf, idf, o).results))
            : o \in Orders(documents)}
    \cup {Range(Ids(rank_bm25(terms, index, idf, o).results)) : o \in Orders(documents)}
    \cup {Range(Ids(rank_custom_cosine(terms, index, tf, idf, PlainCorpus(documents),
                                       QueryScore, QueryPrice, o).results))
            : o \in Orders(documents)}

\* C29: on the same index and the same list of query terms, search_tfidf,
\* rank_tfidf_cosine, rank_bm25 and rank_custom_cosine return the same set of
\* document ids, the documents with a posting under every term, each id once
C29_RankersShareCandidates ==
    /\ out.op \in {"rank_tfidf_cosine", "rank_bm25", "rank_custom_cosine"} =>
           /\ out.raised = ""
           /\ NoRepeat(Ids(out.results))
           /\ process_query(out.query_terms) = out.query_terms
           /\ IdSetsOf(out.query_terms) = {Range(Ids(out.results))}
           /\ Range(Ids(out.results)) = InAllPostings(out.query_terms, index)
    /\ out.op = "search_tfidf" =>
           /\ NoRepeat(out.docs)
           /\ IdSetsOf(process_query(out.query)) = {Range(out.docs)}

\* rank_bm25 returned two of three documents for a query of two terms
C29_Witness ==
    /\ out.op = "rank_bm25"
    /\ Len(out.query_terms) = 2
    /\ out.query_terms[1] # out.query_terms[2]
    /\ Len(out.results) = 2
    /\ Len(documents) = 3
    /\ \E i \in 1..3 : documents[i].title # <<>> /\ documents[i].pid \notin Range(Ids(out.results))

----------------------------------------------------------------------------
(* Division by zero in the evaluation functions *)

\* C30: no evaluation function raises on a division by zero: for K = 0, an
\* empty ranking, an empty benchmark and an empty batch of rankings the call
\* returns a number, and that number is 0
C30_NoDivisionByZero ==
    out.op \in Metrics =>
        /\ out.raised = ""
        /\ (/\ out.op \in {"compute_mean_average_precision", "compute_mean_reciprocal_rank"}
            /\ out.batch = <<>>) => out.value.num = 0
        /\ (/\ out.op = "compute_normalized_discounted_cumulative_gain"
            /\ (out.docs = <<>> \/ out.benchmark = <<>>)) => out.value.num = 0
        /\ (/\ out.op \in {"compute_precision_at_K", "compute_recall_at_K",
                           "compute_average_precision_at_K", "compute_F1_score_at_K"}
            /\ (out.K = 0 \/ out.docs = <<>> \/ out.benchmark = <<>>)) => out.value.num = 0

====
